---- MODULE Spec2Model ----
(***************************************************************************)
(* Cricbuzz LiveStats: the data-access layer (utils/db_connection.py) and  *)
(* the pages that drive it (app.py, pages/crud_operations.py).             *)
(*                                                                         *)
(* Encodings used throughout:                                              *)
(*   - Python None and SQL NULL in a text column are the string "None";    *)
(*     SQL NULL in an integer column is NullInt.                           *)
(*   - DECIMAL columns hold tenths (50.5 is written 505).                  *)
(*   - a datetime.date object is the string "date(YYYY-MM-DD)"; sqlite3    *)
(*     stores it as the ISO text "YYYY-MM-DD" (Adapt).                     *)
(*   - a statement text is a sequence of fragments: a plain string literal *)
(*     is one fragment, an f-string is one fragment per literal part and   *)
(*     one per interpolated value.                                         *)
(*   - a result table (DataFrame) is the set of its rows.                  *)
(***************************************************************************)
EXTENDS Integers, Sequences, FiniteSets, TLC

\* ------------------------------------------------------------------ bounds

\* How many rows of each sample list (sample_players, sample_teams,
\* sample_venues) a seeding inserts in the model.
MaxSeed == 2

\* How many script runs (each an application start-up followed by one page).
MaxRuns == 2

\* How many times the driver may fail for a reason the program does not
\* control (database locked, disk I/O error).
MaxFaults == 1

\* How many direct execute_query calls the API specification makes.
MaxCalls == 3

\* ------------------------------------------------------------------ values

None == "None"

NullInt == 0 - 1

\* sqlite3's default adapter: a datetime.date is stored as its ISO text, every
\* other text value as it is.
Adapt(v) ==
    CASE v = "date(1990-05-17)" -> "1990-05-17"
      [] v = "date(2025-01-10)" -> "2025-01-10"
      [] OTHER -> v

\* Python truthiness of a text value: "" and None are falsy (x or None).
OrNone(v) == IF v = "" THEN None ELSE v

\* Python truthiness of a number: 0 is falsy (capacity or None).
OrNoneInt(n) == IF n = 0 THEN NullInt ELSE n

Tables == {"players", "matches", "player_statistics", "teams", "venues", "series"}

\* ------------------------------------------------------------------ schema

players_table == <<"CREATE TABLE IF NOT EXISTS players">>

matches_table == <<"CREATE TABLE IF NOT EXISTS matches">>

player_stats_table == <<"CREATE TABLE IF NOT EXISTS player_statistics">>

teams_table == <<"CREATE TABLE IF NOT EXISTS teams">>

venues_table == <<"CREATE TABLE IF NOT EXISTS venues">>

series_table == <<"CREATE TABLE IF NOT EXISTS series">>

\* A list that begins with the table that references the others.
tablesStatisticsFirst ==
    <<player_stats_table, players_table, matches_table,
      teams_table, venues_table, series_table>>

\* The list create_tables iterates over, in its order.
tables == <<players_table, matches_table, player_stats_table,
            teams_table, venues_table, series_table>>

CreatedTable(text) ==
    CASE text = players_table -> "players"
      [] text = matches_table -> "matches"
      [] text = player_stats_table -> "player_statistics"
      [] text = teams_table -> "teams"
      [] text = venues_table -> "venues"
      [] text = series_table -> "series"

\* ------------------------------------------------------------------ seed data

sample_players == <<
    <<"Virat Kohli", "India", "Batsman", "Right-hand bat", "Right-arm medium", "1988-11-05", 12000, 4, 505, 250, 925, 65>>,
    <<"Rohit Sharma", "India", "Batsman", "Right-hand bat", "Right-arm off-break", "1987-04-30", 9500, 8, 482, 205, 883, 58>>,
    <<"Kane Williamson", "New Zealand", "Batsman", "Right-hand bat", "Right-arm off-break", "1990-08-08", 7800, 12, 478, 182, 812, 49>>,
    <<"Steve Smith", "Australia", "Batsman", "Right-hand bat", "Right-arm leg-break", "1989-06-02", 8200, 17, 618, 301, 864, 47>>,
    <<"Babar Azam", "Pakistan", "Batsman", "Right-hand bat", "Right-arm off-break", "1994-10-15", 4500, 3, 459, 333, 897, 52>>,
    <<"Jasprit Bumrah", "India", "Bowler", "Right-hand bat", "Right-arm fast", "1993-12-06", 150, 150, 125, 221, 654, 46>>,
    <<"Trent Boult", "New Zealand", "Bowler", "Left-hand bat", "Left-arm fast-medium", "1989-07-22", 200, 180, 158, 278, 702, 48>>,
    <<"Pat Cummins", "Australia", "Bowler", "Right-hand bat", "Right-arm fast", "1993-05-08", 350, 200, 221, 234, 756, 32>>,
    <<"Kagiso Rabada", "South Africa", "Bowler", "Right-hand bat", "Right-arm fast", "1995-05-25", 180, 170, 182, 229, 688, 44>>,
    <<"Rashid Khan", "Afghanistan", "Bowler", "Right-hand bat", "Right-arm leg-break", "1998-09-20", 220, 120, 115, 182, 854, 62>>,
    <<"Ben Stokes", "England", "All-rounder", "Left-hand bat", "Right-arm fast-medium", "1991-06-04", 4800, 95, 358, 312, 821, 38>>,
    <<"Shakib Al Hasan", "Bangladesh", "All-rounder", "Left-hand bat", "Slow left-arm orthodox", "1987-03-24", 6500, 280, 389, 311, 813, 49>>,
    <<"Ravindra Jadeja", "India", "All-rounder", "Left-hand bat", "Slow left-arm orthodox", "1988-12-06", 2500, 220, 352, 248, 865, 24>>,
    <<"MS Dhoni", "India", "Wicket-keeper", "Right-hand bat", "Right-arm medium", "1981-07-07", 10500, 1, 506, 0, 876, 0>>,
    <<"Jos Buttler", "England", "Wicket-keeper", "Right-hand bat", None, "1990-09-08", 4200, 0, 418, 0, 1184, 0>> >>

sample_teams == <<
    <<"India", "India", "International", 250, 180, 65, 5, 720>>,
    <<"Australia", "Australia", "International", 220, 160, 55, 5, 727>>,
    <<"England", "England", "International", 200, 130, 65, 5, 650>>,
    <<"New Zealand", "New Zealand", "International", 180, 110, 65, 5, 611>>,
    <<"Pakistan", "Pakistan", "International", 190, 120, 65, 5, 632>>,
    <<"South Africa", "South Africa", "International", 170, 100, 65, 5, 588>>,
    <<"West Indies", "West Indies", "International", 160, 90, 65, 5, 563>>,
    <<"Bangladesh", "Bangladesh", "International", 140, 70, 65, 5, 500>>,
    <<"Sri Lanka", "Sri Lanka", "International", 150, 85, 60, 5, 567>>,
    <<"Afghanistan", "Afghanistan", "International", 100, 45, 50, 5, 450>> >>

sample_venues == <<
    <<"Lord's Cricket Ground", "London", "England", 30000, "Balanced">>,
    <<"Melbourne Cricket Ground", "Melbourne", "Australia", 100024, "Batting-friendly">>,
    <<"Eden Gardens", "Kolkata", "India", 66349, "Spin-friendly">>,
    <<"Wankhede Stadium", "Mumbai", "India", 33108, "Batting-friendly">>,
    <<"The Oval", "London", "England", 25500, "Balanced">>,
    <<"Sydney Cricket Ground", "Sydney", "Australia", 48000, "Batting-friendly">>,
    <<"Dubai International Cricket Stadium", "Dubai", "UAE", 25000, "Batting-friendly">>,
    <<"Gaddafi Stadium", "Lahore", "Pakistan", 27000, "Batting-friendly">>,
    <<"Basin Reserve", "Wellington", "New Zealand", 11600, "Bowling-friendly">>,
    <<"Newlands", "Cape Town", "South Africa", 25000, "Balanced">> >>

Min(a, b) == IF a < b THEN a ELSE b

\* The rows of a sample list the model's seeding inserts.
SeedCount(list) == Min(MaxSeed, Len(list))

\* ------------------------------------------------------------------ statements

\* _insert_sample_data
count_query == <<"SELECT COUNT(*) as count FROM players">>

insert_player_query == <<"INSERT OR IGNORE INTO players (name, country, playing_role, batting_style, bowling_style, date_of_birth, total_runs, total_wickets, batting_average, bowling_average, strike_rate, economy_rate) VALUES (?, ?, ?, ?, ?, ?, ?, ?, ?, ?, ?, ?)">>

insert_team_query == <<"INSERT OR IGNORE INTO teams (team_name, country, team_type, matches_played, matches_won, matches_lost, matches_tied, win_percentage) VALUES (?, ?, ?, ?, ?, ?, ?, ?)">>

insert_venue_query == <<"INSERT OR IGNORE INTO venues (venue_name, city, country, capacity, pitch_type) VALUES (?, ?, ?, ?, ?)">>

\* the create forms
create_player_query == <<"INSERT INTO players (name, country, playing_role, batting_style, bowling_style, date_of_birth, total_runs, total_wickets, batting_average, bowling_average, strike_rate, economy_rate) VALUES (?, ?, ?, ?, ?, ?, ?, ?, ?, ?, ?, ?)">>

create_match_query == <<"INSERT INTO matches (match_title, team1, team2, venue_name, venue_city, venue_country, match_date, match_format, toss_winner, toss_decision, winner, victory_margin, victory_type, man_of_match, match_status) VALUES (?, ?, ?, ?, ?, ?, ?, ?, ?, ?, ?, ?, ?, ?, ?)">>

create_venue_query == <<"INSERT INTO venues (venue_name, city, country, capacity, pitch_type) VALUES (?, ?, ?, ?, ?)">>

create_team_query == <<"INSERT INTO teams (team_name, country, team_type, matches_played, matches_won, matches_lost, matches_tied, win_percentage) VALUES (?, ?, ?, ?, ?, ?, ?, ?)">>

create_series_query == <<"INSERT INTO series (series_name, series_type, host_country, start_date, end_date, total_matches, matches_completed) VALUES (?, ?, ?, ?, ?, ?, ?)">>

\* show_read_operations: the table name is interpolated (f-string).
BrowseAll(selected_table) == <<"SELECT * FROM ", selected_table, " LIMIT ?">>

BrowsePlayers(selected_table) ==
    <<"SELECT * FROM ", selected_table,
      " WHERE name LIKE ? OR country LIKE ? OR playing_role LIKE ? ORDER BY name LIMIT ?">>

BrowseMatches(selected_table) ==
    <<"SELECT * FROM ", selected_table,
      " WHERE match_title LIKE ? OR team1 LIKE ? OR team2 LIKE ? OR venue_name LIKE ? ORDER BY match_date DESC LIMIT ?">>

\* the update and delete pages
players_query == <<"SELECT player_id, name, country FROM players ORDER BY name">>

matches_query == <<"SELECT match_id, match_title, match_date FROM matches ORDER BY match_date DESC LIMIT 50">>

current_player_query == <<"SELECT * FROM players WHERE player_id = ?">>

current_match_query == <<"SELECT * FROM matches WHERE match_id = ?">>

update_player_query == <<"UPDATE players SET name = ?, country = ?, playing_role = ?, total_runs = ?, total_wickets = ?, batting_average = ?, bowling_average = ?, strike_rate = ?, economy_rate = ?, updated_at = CURRENT_TIMESTAMP WHERE player_id = ?">>

update_match_query == <<"UPDATE matches SET winner = ?, victory_margin = ?, victory_type = ?, man_of_match = ?, match_status = ? WHERE match_id = ?">>

delete_player_stats_query == <<"DELETE FROM player_statistics WHERE player_id = ?">>

delete_player_query == <<"DELETE FROM players WHERE player_id = ?">>

delete_match_stats_query == <<"DELETE FROM player_statistics WHERE match_id = ?">>

delete_match_query == <<"DELETE FROM matches WHERE match_id = ?">>

\* show_custom_query_interface: the text area's default content. A text typed
\* into the text area is the sequence of its words.
default_query ==
    <<"-- Write your SQL query here", "SELECT", "*", "FROM", "players", "LIMIT", "10;">>

\* The row limits of the texts below, as the user types them.
LimitTexts == <<"1;", "2;", "3;", "4;", "5;", "6;", "7;", "8;", "9;", "10;", "11;">>

\* A text the user may type instead of the default: the same select with the
\* n-th row limit.
LimitQuery(n) == <<"SELECT", "*", "FROM", "players", "LIMIT", LimitTexts[n]>>

\* show_home_page: the three reads under the metrics.
player_roles_query ==
    <<"SELECT playing_role, COUNT(*) as count FROM players GROUP BY playing_role ORDER BY count DESC">>

country_query ==
    <<"SELECT country, COUNT(*) as player_count FROM players GROUP BY country ORDER BY player_count DESC LIMIT 10">>

recent_players_query ==
    <<"SELECT name, country, playing_role, created_at FROM players ORDER BY created_at DESC LIMIT 5">>

\* A caller's read-back of one player by name, through a bound parameter.
player_by_name_query == <<"SELECT * FROM players WHERE name = ?">>

\* ------------------------------------------------------------------ the store

\* A freshly created data file: no table yet.
EmptyStore ==
    [tables |-> {}, players |-> {}, matches |-> {}, player_statistics |-> {},
     teams |-> {}, venues |-> {}, series |-> {},
     seq |-> [t \in Tables |-> 0]]

\* What the driver answers for one statement: the error ("" when it succeeded),
\* the store as the connection now sees it, the result rows, and whether the
\* statement is a query ("rows"), a row change ("dml") or a schema change ("ddl").
Ok(w, rows, kind) == [err |-> "", store |-> w, rows |-> rows, kind |-> kind]

Err(w, msg) == [err |-> msg, store |-> w, rows |-> {}, kind |-> "error"]

NoTable(w, t) == Err(w, "no such table")

BadBindings(w) == Err(w, "Incorrect number of bindings supplied")

\* AUTOINCREMENT: one more than the largest identifier the table ever held.
NextId(w, t) == w.seq[t] + 1

AddRow(w, t, row) ==
    [w EXCEPT ![t] = @ \cup {row}, !.seq = [@ EXCEPT ![t] = @ + 1]]

\* ------------------------------------------------------------------ rows

PlayerRow(id, p, now) ==
    [player_id |-> id, name |-> Adapt(p[1]), country |-> Adapt(p[2]),
     playing_role |-> Adapt(p[3]), batting_style |-> Adapt(p[4]),
     bowling_style |-> Adapt(p[5]), date_of_birth |-> Adapt(p[6]),
     total_runs |-> p[7], total_wickets |-> p[8], batting_average |-> p[9],
     bowling_average |-> p[10], strike_rate |-> p[11], economy_rate |-> p[12],
     created_at |-> now, updated_at |-> now]

MatchRow(id, p, now) ==
    [match_id |-> id, match_title |-> Adapt(p[1]), team1 |-> Adapt(p[2]),
     team2 |-> Adapt(p[3]), venue_name |-> Adapt(p[4]), venue_city |-> Adapt(p[5]),
     venue_country |-> Adapt(p[6]), match_date |-> Adapt(p[7]),
     match_format |-> Adapt(p[8]), toss_winner |-> Adapt(p[9]),
     toss_decision |-> Adapt(p[10]), winner |-> Adapt(p[11]),
     victory_margin |-> Adapt(p[12]), victory_type |-> Adapt(p[13]),
     man_of_match |-> Adapt(p[14]), match_status |-> Adapt(p[15]),
     created_at |-> now]

TeamRow(id, p, now) ==
    [team_id |-> id, team_name |-> Adapt(p[1]), country |-> Adapt(p[2]),
     team_type |-> Adapt(p[3]), matches_played |-> p[4], matches_won |-> p[5],
     matches_lost |-> p[6], matches_tied |-> p[7], win_percentage |-> p[8],
     created_at |-> now]

VenueRow(id, p, now) ==
    [venue_id |-> id, venue_name |-> Adapt(p[1]), city |-> Adapt(p[2]),
     country |-> Adapt(p[3]), capacity |-> p[4], pitch_type |-> Adapt(p[5]),
     created_at |-> now]

SeriesRow(id, p, now) ==
    [series_id |-> id, series_name |-> Adapt(p[1]), series_type |-> Adapt(p[2]),
     host_country |-> Adapt(p[3]), start_date |-> Adapt(p[4]),
     end_date |-> Adapt(p[5]), total_matches |-> p[6],
     matches_completed |-> p[7], created_at |-> now]

\* A player_statistics row (the columns the pages read or filter on).
StatRow(id, player_id, match_id, runs) ==
    [stat_id |-> id, player_id |-> player_id, match_id |-> match_id,
     runs_scored |-> runs]

\* ------------------------------------------------------------------ the driver

\* LIKE '%term%' over the model's values: the search terms and the field values
\* are drawn from one universe in which no value is a proper part of another,
\* and NULL matches nothing.
Like(value, term) == value # None /\ value = term

\* DROP TABLE IF EXISTS followed by CREATE TABLE: the table is there, and empty.
CreateTableAfterDrop(w, t) == [w EXCEPT !.tables = @ \cup {t}, ![t] = {}]

\* CREATE TABLE IF NOT EXISTS: does nothing when the table is there.
CreateTable(w, t) ==
    IF t \in w.tables THEN w ELSE [w EXCEPT !.tables = @ \cup {t}]

\* INSERT [OR IGNORE] INTO players: name is NOT NULL, nothing is UNIQUE.
InsertPlayer(w, p, ignore, now) ==
    IF "players" \notin w.tables THEN NoTable(w, "players")
    ELSE IF Len(p) # 12 THEN BadBindings(w)
    ELSE IF Adapt(p[1]) = None
         THEN IF ignore THEN Ok(w, {}, "dml")
              ELSE Err(w, "NOT NULL constraint failed: players.name")
    ELSE Ok(AddRow(w, "players", PlayerRow(NextId(w, "players"), p, now)), {}, "dml")

\* INSERT [OR IGNORE] INTO teams: team_name is UNIQUE NOT NULL.
InsertTeam(w, p, ignore, now) ==
    IF "teams" \notin w.tables THEN NoTable(w, "teams")
    ELSE IF Len(p) # 8 THEN BadBindings(w)
    ELSE IF Adapt(p[1]) = None
         THEN IF ignore THEN Ok(w, {}, "dml")
              ELSE Err(w, "NOT NULL constraint failed: teams.team_name")
    ELSE IF \E r \in w.teams : r.team_name = Adapt(p[1])
         THEN IF ignore THEN Ok(w, {}, "dml")
              ELSE Err(w, "UNIQUE constraint failed: teams.team_name")
    ELSE Ok(AddRow(w, "teams", TeamRow(NextId(w, "teams"), p, now)), {}, "dml")

\* INSERT [OR IGNORE] INTO venues: venue_name is NOT NULL, nothing is UNIQUE.
InsertVenue(w, p, ignore, now) ==
    IF "venues" \notin w.tables THEN NoTable(w, "venues")
    ELSE IF Len(p) # 5 THEN BadBindings(w)
    ELSE IF Adapt(p[1]) = None
         THEN IF ignore THEN Ok(w, {}, "dml")
              ELSE Err(w, "NOT NULL constraint failed: venues.venue_name")
    ELSE Ok(AddRow(w, "venues", VenueRow(NextId(w, "venues"), p, now)), {}, "dml")

\* INSERT INTO matches: match_title, team1 and team2 are NOT NULL.
InsertMatch(w, p, now) ==
    IF "matches" \notin w.tables THEN NoTable(w, "matches")
    ELSE IF Len(p) # 15 THEN BadBindings(w)
    ELSE IF Adapt(p[1]) = None \/ Adapt(p[2]) = None \/ Adapt(p[3]) = None
         THEN Err(w, "NOT NULL constraint failed: matches")
    ELSE Ok(AddRow(w, "matches", MatchRow(NextId(w, "matches"), p, now)), {}, "dml")

\* INSERT INTO series: series_name is NOT NULL.
InsertSeries(w, p, now) ==
    IF "series" \notin w.tables THEN NoTable(w, "series")
    ELSE IF Len(p) # 7 THEN BadBindings(w)
    ELSE IF Adapt(p[1]) = None
         THEN Err(w, "NOT NULL constraint failed: series.series_name")
    ELSE Ok(AddRow(w, "series", SeriesRow(NextId(w, "series"), p, now)), {}, "dml")

\* UPDATE players SET ... WHERE player_id = ?
UpdatePlayer(w, p, now) ==
    IF "players" \notin w.tables THEN NoTable(w, "players")
    ELSE IF Len(p) # 10 THEN BadBindings(w)
    ELSE IF \E r \in w.players : r.player_id = p[10] /\ Adapt(p[1]) = None
         THEN Err(w, "NOT NULL constraint failed: players.name")
    ELSE Ok([w EXCEPT !.players =
                {IF r.player_id = p[10]
                 THEN [r EXCEPT !.name = Adapt(p[1]), !.country = Adapt(p[2]),
                                !.playing_role = Adapt(p[3]), !.total_runs = p[4],
                                !.total_wickets = p[5], !.batting_average = p[6],
                                !.bowling_average = p[7], !.strike_rate = p[8],
                                !.economy_rate = p[9], !.updated_at = now]
                 ELSE r : r \in w.players}], {}, "dml")

\* UPDATE matches SET ... WHERE match_id = ?
UpdateMatch(w, p) ==
    IF "matches" \notin w.tables THEN NoTable(w, "matches")
    ELSE IF Len(p) # 6 THEN BadBindings(w)
    ELSE Ok([w EXCEPT !.matches =
                {IF r.match_id = p[6]
                 THEN [r EXCEPT !.winner = Adapt(p[1]), !.victory_margin = Adapt(p[2]),
                                !.victory_type = Adapt(p[3]), !.man_of_match = Adapt(p[4]),
                                !.match_status = Adapt(p[5])]
                 ELSE r : r \in w.matches}], {}, "dml")

\* DELETE FROM <t> WHERE <column> = ?  (foreign keys are declared but SQLite
\* does not enforce them unless PRAGMA foreign_keys is set, which the code
\* never does: a parent row is deleted whether or not rows reference it).
DeleteWhere(w, t, column, p) ==
    IF t \notin w.tables THEN NoTable(w, t)
    ELSE IF Len(p) # 1 THEN BadBindings(w)
    ELSE Ok([w EXCEPT ![t] = {r \in @ : r[column] # p[1]}], {}, "dml")

\* SELECT * FROM <t> WHERE <column> = ?
SelectWhere(w, t, column, p) ==
    IF t \notin w.tables THEN NoTable(w, t)
    ELSE IF Len(p) # 1 THEN BadBindings(w)
    ELSE Ok(w, {r \in w[t] : r[column] = p[1]}, "rows")

\* SELECT * FROM <t> LIMIT ?  (the limit is at least 10, more than a table of
\* the model holds).
SelectAll(w, t, p) ==
    IF t \notin w.tables THEN NoTable(w, t)
    ELSE IF Len(p) # 1 THEN BadBindings(w)
    ELSE Ok(w, w[t], "rows")

SearchPlayers(w, p) ==
    IF "players" \notin w.tables THEN NoTable(w, "players")
    ELSE IF Len(p) # 4 THEN BadBindings(w)
    ELSE Ok(w, {r \in w.players : \/ Like(r.name, p[1]) \/ Like(r.country, p[2])
                                  \/ Like(r.playing_role, p[3])}, "rows")

SearchMatches(w, p) ==
    IF "matches" \notin w.tables THEN NoTable(w, "matches")
    ELSE IF Len(p) # 5 THEN BadBindings(w)
    ELSE Ok(w, {r \in w.matches : \/ Like(r.match_title, p[1]) \/ Like(r.team1, p[2])
                                  \/ Like(r.team2, p[3]) \/ Like(r.venue_name, p[4])}, "rows")

\* SELECT <column>, COUNT(*) as <label> FROM players GROUP BY <column>
GroupCount(w, column, label) ==
    IF "players" \notin w.tables THEN NoTable(w, "players")
    ELSE Ok(w, {[k \in {column, label} |->
                    IF k = column THEN v
                    ELSE Cardinality({r \in w.players : r[column] = v})] :
                v \in {r[column] : r \in w.players}}, "rows")

\* SELECT name, country, playing_role, created_at FROM players
\* ORDER BY created_at DESC LIMIT n
Latest(w, n) ==
    IF "players" \notin w.tables THEN NoTable(w, "players")
    ELSE LET kept == CHOOSE S \in SUBSET w.players :
                        /\ Cardinality(S) = Min(n, Cardinality(w.players))
                        /\ \A a \in S, b \in w.players \ S : a.created_at >= b.created_at
         IN Ok(w, {[name |-> r.name, country |-> r.country,
                    playing_role |-> r.playing_role, created_at |-> r.created_at] :
                   r \in kept}, "rows")

\* SELECT * FROM players LIMIT n: the first n rows in rowid order.
FirstRows(w, n) ==
    IF "players" \notin w.tables THEN NoTable(w, "players")
    ELSE Ok(w, {r \in w.players :
                  Cardinality({o \in w.players : o.player_id < r.player_id}) < n}, "rows")

\* The statements without a placeholder take no bindings.
Unbound(w, p, answer) == IF Len(p) # 0 THEN BadBindings(w) ELSE answer

\* What SQLite does with one statement, given the store as the connection sees
\* it, the bound values and the current time.
Exec(w, text, p, now) ==
    IF text \in {tables[i] : i \in 1..Len(tables)}
        THEN Unbound(w, p, Ok(CreateTable(w, CreatedTable(text)), {}, "ddl"))
    ELSE IF text = count_query
        THEN IF "players" \notin w.tables THEN NoTable(w, "players")
             ELSE Unbound(w, p, Ok(w, {[count |-> Cardinality(w.players)]}, "rows"))
    ELSE IF text = insert_player_query THEN InsertPlayer(w, p, TRUE, now)
    ELSE IF text = create_player_query THEN InsertPlayer(w, p, FALSE, now)
    ELSE IF text = insert_team_query THEN InsertTeam(w, p, TRUE, now)
    ELSE IF text = create_team_query THEN InsertTeam(w, p, FALSE, now)
    ELSE IF text = insert_venue_query THEN InsertVenue(w, p, TRUE, now)
    ELSE IF text = create_venue_query THEN InsertVenue(w, p, FALSE, now)
    ELSE IF text = create_match_query THEN InsertMatch(w, p, now)
    ELSE IF text = create_series_query THEN InsertSeries(w, p, now)
    ELSE IF text = players_query
        THEN IF "players" \notin w.tables THEN NoTable(w, "players")
             ELSE Unbound(w, p, Ok(w, {[player_id |-> r.player_id, name |-> r.name,
                                        country |-> r.country] : r \in w.players}, "rows"))
    ELSE IF text = matches_query
        THEN IF "matches" \notin w.tables THEN NoTable(w, "matches")
             ELSE Unbound(w, p, Ok(w, {[match_id |-> r.match_id, match_title |-> r.match_title,
                                        match_date |-> r.match_date] : r \in w.matches}, "rows"))
    ELSE IF text = current_player_query THEN SelectWhere(w, "players", "player_id", p)
    ELSE IF text = current_match_query THEN SelectWhere(w, "matches", "match_id", p)
    ELSE IF text = player_by_name_query THEN SelectWhere(w, "players", "name", p)
    ELSE IF text = update_player_query THEN UpdatePlayer(w, p, now)
    ELSE IF text = update_match_query THEN UpdateMatch(w, p)
    ELSE IF text = delete_player_stats_query
        THEN DeleteWhere(w, "player_statistics", "player_id", p)
    ELSE IF text = delete_player_query THEN DeleteWhere(w, "players", "player_id", p)
    ELSE IF text = delete_match_stats_query
        THEN DeleteWhere(w, "player_statistics", "match_id", p)
    ELSE IF text = delete_match_query THEN DeleteWhere(w, "matches", "match_id", p)
    ELSE IF \E t \in Tables : text = BrowseAll(t)
        THEN SelectAll(w, text[2], p)
    ELSE IF text = BrowsePlayers("players") THEN SearchPlayers(w, p)
    ELSE IF text = BrowseMatches("matches") THEN SearchMatches(w, p)
    ELSE IF text = default_query
        THEN IF "players" \notin w.tables THEN NoTable(w, "players")
             ELSE Unbound(w, p, Ok(w, w.players, "rows"))
    ELSE IF \E n \in DOMAIN LimitTexts : text = LimitQuery(n)
        THEN Unbound(w, p, FirstRows(w, CHOOSE n \in DOMAIN LimitTexts : text = LimitQuery(n)))
    ELSE IF text = player_roles_query
        THEN Unbound(w, p, GroupCount(w, "playing_role", "count"))
    ELSE IF text = country_query
        THEN Unbound(w, p, GroupCount(w, "country", "player_count"))
    ELSE IF text = recent_players_query THEN Unbound(w, p, Latest(w, 5))
    ELSE Err(w, "syntax error")

\* ------------------------------------------------------------------ state

VARIABLES
    store,     \* the committed content of the data file (cricket_analytics.db)
    conns,     \* how many connections are open
    work,      \* the content as the open connection sees it (uncommitted changes included)
    eq,        \* the execute_query call in progress, or the outcome of the last one
    events,    \* what the current (or last) execute_query call did, in order
    faults,    \* how many driver failures have happened
    clock,     \* CURRENT_TIMESTAMP, in script runs
    calls,     \* direct execute_query calls made (API specification)
    pc,        \* where the script run is
    idx,       \* the index of the loop the script run is in
    fired,     \* whether this run's button press or form submit was consumed
    todo,      \* the calls the running delete loop still has to make
    selected,  \* the identifiers picked in the delete multiselect
    msg,       \* the last st.success / st.error of the page
    runs,      \* script runs started
    snap,      \* the store on entry to create_tables and to _insert_sample_data,
               \* the INSERT calls the running seeding has issued, and what the
               \* delete page's widgets held in this run
    db,        \* the DatabaseConnection object the caller holds (or its failed construction)
    backup,    \* the backup files, and what the last backup_database call did
    session,   \* Streamlit's per-session state: widget values, and the run they were rendered in
    peers      \* where each of two concurrent sessions is in its start-up

vars == <<store, conns, work, eq, events, faults, clock, calls,
          pc, idx, fired, todo, selected, msg, runs, snap, db, backup, session,
          peers>>

\* The object, the backup files and the session state: what neither
\* execute_query nor the bootstrap nor the CRUD page touches.
objVars == <<db, backup, session, peers>>

\* What belongs to the caller of execute_query.
callerVars == <<clock, calls, pc, idx, fired, todo, selected, msg, runs, snap, objVars>>

\* What belongs to the script run.
scriptVars == <<pc, idx, fired, todo, selected, msg, runs, snap, objVars>>

\* The value a call returns: None, or a DataFrame with its rows.
NoneValue == [kind |-> "None", rows |-> {}]

DataFrame(rows) == [kind |-> "DataFrame", rows |-> rows]

NoCall ==
    [stage |-> "none", query |-> <<>>, params |-> <<>>, fetch |-> TRUE,
     value |-> NoneValue, err |-> "", faulted |-> FALSE, before |-> EmptyStore]

\* execute_query(query, params, fetch) entered; params = <<>> stands for None.
\* `before` remembers the store at the call.
Call(query, params, fetch) ==
    [stage |-> "called", query |-> query, params |-> params, fetch |-> fetch,
     value |-> NoneValue, err |-> "", faulted |-> FALSE, before |-> store]

\* No execute_query call is running: control is with the caller.
AtCaller == eq.stage \in {"none", "returned", "raised"}

\* ------------------------------------------------------------------ execute_query

\* `if params:` -- a non-empty tuple is truthy; such a read is handed to pandas
\* as text(query), a SQLAlchemy TextClause, and every other read as the str.
IsTextClause(params) == Len(params) > 0

\* pandas.read_sql_query on a raw sqlite3 connection: the statement must be a
\* str (a TextClause is refused with a TypeError before anything runs), and a
\* statement that yields no result set has run by the time pandas fails on it.
ReadSqlQuery(w, query, params, wrapped, now) ==
    IF wrapped THEN Err(w, "TypeError: Query must be a string unless using sqlalchemy")
    ELSE LET r == Exec(w, query, params, now)
         IN IF r.err # "" THEN r
            ELSE IF r.kind # "rows"
                 THEN [r EXCEPT !.err = "TypeError: 'NoneType' object is not iterable"]
            ELSE r

\* A get_connection without the finally clause: the connection is closed only
\* when the with block is left normally.
AfterWithNoFinally(stage, n) == IF stage = "failing" THEN n ELSE n - 1

\* The connection count once the `with self.get_connection()` block is left in
\* `stage` ("leaving" normally, "failing" with an exception): finally: conn.close().
AfterWith(stage, n) == n - 1

\* A write branch without conn.commit(): the with block is left right after
\* cursor.execute.
AfterCursorExecuteNoCommit(fetch) == "leaving"

\* Where a write goes after cursor.execute succeeded: conn.commit() is next.
AfterCursorExecute(fetch) == "executed"

\* A write branch that hands back the cursor's rows when the statement had any.
WriteValueRows(r) == IF r.kind = "rows" THEN DataFrame(r.rows) ELSE NoneValue

\* What a write-mode call returns.
WriteValue(r) == NoneValue

\* sqlite3 (legacy transaction control): a schema statement takes effect at
\* once, a row change stays pending on the connection until commit.
Committed(r, committed) == IF r.kind = "ddl" THEN r.store ELSE committed

\* `with self.get_connection() as conn` -- sqlite3.connect(self.db_path).
EqConnect ==
    /\ eq.stage = "called"
    /\ \/ /\ conns' = conns + 1
          /\ work' = store
          /\ eq' = [eq EXCEPT !.stage = "connected"]
          /\ events' = Append(events, "connect")
          /\ UNCHANGED faults
       \/ /\ faults < MaxFaults
          /\ faults' = faults + 1
          /\ eq' = [eq EXCEPT !.stage = "raised", !.faulted = TRUE,
                              !.err = "OperationalError: unable to open database file"]
          /\ UNCHANGED <<conns, work, events>>
    /\ UNCHANGED <<store, callerVars>>

\* The body of the with block up to the statement's execution.
EqExecute ==
    /\ eq.stage = "connected"
    /\ \/ LET r == IF eq.fetch
                   THEN ReadSqlQuery(work, eq.query, eq.params,
                                     IsTextClause(eq.params), clock)
                   ELSE Exec(work, eq.query, eq.params, clock)
          IN /\ work' = r.store
             /\ store' = Committed(r, store)
             /\ eq' = IF r.err # ""
                      THEN [eq EXCEPT !.stage = "failing", !.err = r.err]
                      ELSE IF eq.fetch
                      THEN [eq EXCEPT !.stage = "leaving", !.value = DataFrame(r.rows)]
                      ELSE [eq EXCEPT !.stage = AfterCursorExecute(eq.fetch),
                                      !.value = WriteValue(r)]
             /\ UNCHANGED faults
       \/ /\ faults < MaxFaults
          /\ faults' = faults + 1
          /\ eq' = [eq EXCEPT !.stage = "failing", !.faulted = TRUE,
                              !.err = "OperationalError: database is locked"]
          /\ UNCHANGED <<work, store>>
    /\ events' = Append(events, "execute")
    /\ UNCHANGED <<conns, callerVars>>

\* conn.commit()
EqCommit ==
    /\ eq.stage = "executed"
    /\ \/ /\ store' = work
          /\ eq' = [eq EXCEPT !.stage = "leaving"]
          /\ UNCHANGED faults
       \/ /\ faults < MaxFaults
          /\ faults' = faults + 1
          /\ eq' = [eq EXCEPT !.stage = "failing", !.faulted = TRUE,
                              !.err = "OperationalError: disk I/O error"]
          /\ UNCHANGED store
    /\ events' = Append(events, "commit")
    /\ UNCHANGED <<conns, work, callerVars>>

\* An except clause that logs the error and goes on to return.
AfterExceptSwallowed(call) == "returned"

\* except Exception as e: logger.error(...); raise
AfterExcept(call) == "raised"

\* What the bare `raise` hands to the caller: the exception that was caught,
\* with its own message.
Reraised(fetch, err) == err

\* Leaving the with block: get_connection's finally closes the connection (what
\* was not committed is lost); then the value is returned, or the except clause
\* logs the error and raises it again.
EqClose ==
    /\ eq.stage \in {"leaving", "failing"}
    /\ conns' = AfterWith(eq.stage, conns)
    /\ work' = store
    /\ events' = IF conns' < conns THEN Append(events, "close") ELSE events
    /\ eq' = IF eq.stage = "leaving"
             THEN [eq EXCEPT !.stage = "returned"]
             ELSE [eq EXCEPT !.stage = AfterExcept(eq),
                             !.err = Reraised(eq.fetch, eq.err)]
    /\ UNCHANGED <<store, faults, callerVars>>

execute_query == EqConnect \/ EqExecute \/ EqCommit \/ EqClose

\* ------------------------------------------------------------------ bootstrap calls

\* One execute_query call a loop makes: the statement and its bound values.
Stmt(query, params) == [query |-> query, params |-> params]

\* create_tables: for table_sql in tables
CreateCalls == [i \in 1..Len(tables) |-> Stmt(tables[i], <<>>)]

\* _insert_sample_data: the three insert loops, in order.
SeedCalls ==
    [i \in 1..SeedCount(sample_players) |-> Stmt(insert_player_query, sample_players[i])]
    \o [i \in 1..SeedCount(sample_teams) |-> Stmt(insert_team_query, sample_teams[i])]
    \o [i \in 1..SeedCount(sample_venues) |-> Stmt(insert_venue_query, sample_venues[i])]

\* The store after the calls of `stmts` ran in order, each committed, none failing
\* for an outside reason (a statement the driver refuses changes nothing).
RECURSIVE RunAll(_, _, _)
RunAll(w, stmts, now) ==
    IF stmts = <<>> THEN w
    ELSE RunAll(Exec(w, Head(stmts).query, Head(stmts).params, now).store,
                Tail(stmts), now)

\* The store a first start-up leaves.
Bootstrapped == RunAll(RunAll(EmptyStore, CreateCalls, 0), SeedCalls, 0)

\* A bootstrapped store into which one match and its score cards were loaded
\* (player_statistics has no form: its rows come from outside the pages).
Populated ==
    LET m == MatchRow(1, <<"IND vs AUS - 3rd ODI", "India", "Australia",
                           "Wankhede Stadium", "Mumbai", "India", "2025-01-10", "ODI",
                           None, None, None, None, None, None, "Scheduled">>, 0)
    IN [Bootstrapped EXCEPT
          !.matches = {m},
          !.player_statistics = {StatRow(1, 1, 1, 52), StatRow(2, 2, 1, 7)},
          !.seq = [@ EXCEPT !["matches"] = 1, !["player_statistics"] = 2]]

InitStores == {EmptyStore, Populated}

\* ------------------------------------------------------------------ the object

\* The backend kinds a caller may name.
Kinds == {"sqlite", "postgresql", "mysql", "oracle"}

\* The keyword arguments a caller may pass: any subset of these, each with the
\* value below (port is never passed).
GivenParams ==
    [host |-> "db.example.org", database |-> "cricket", username |-> "app",
     password |-> "s3cret"]

Kwargs == {[k \in S |-> GivenParams[k]] : S \in SUBSET DOMAIN GivenParams}

\* The keyword arguments of an SQLite object: none, or a data file of the
\* caller's own.
SqliteKwargs == {<<>>, [db_path |-> "data/stats.sqlite3"]}

\* kwargs.get(key, default)
Get(kwargs, key, default) == IF key \in DOMAIN kwargs THEN kwargs[key] ELSE default

\* A __init__ in which the final else branch is gone.
UnsupportedNever(db_type) == FALSE

\* The else branch of __init__: none of the three kinds.
Unsupported(db_type) == db_type \notin {"sqlite", "postgresql", "mysql"}

\* self.db_path: set for SQLite only (None stands for the missing attribute).
DbPath(db_type, kwargs) ==
    IF db_type = "sqlite" THEN Get(kwargs, "db_path", "cricket_analytics.db") ELSE None

\* self.connection_string, one fragment per literal part and per interpolation.
ConnectionString(db_type, kwargs) ==
    CASE db_type = "sqlite" -> <<"sqlite:///", DbPath(db_type, kwargs)>>
      [] db_type = "postgresql" ->
           <<"postgresql://", Get(kwargs, "username", "postgres"), ":",
             Get(kwargs, "password", "password"), "@", Get(kwargs, "host", "localhost"),
             ":", Get(kwargs, "port", "5432"), "/", Get(kwargs, "database", "cricket_db")>>
      [] db_type = "mysql" ->
           <<"mysql+mysqlconnector://", Get(kwargs, "username", "root"), ":",
             Get(kwargs, "password", "password"), "@", Get(kwargs, "host", "localhost"),
             ":", Get(kwargs, "port", "3306"), "/", Get(kwargs, "database", "cricket_db")>>
      [] OTHER -> <<>>

\* The delete page's widgets before the page is rendered in a run.
NoForm == [confirm_delete |-> FALSE, final_confirm |-> "", pressed |-> FALSE]

\* No object yet.
NoObject ==
    [state |-> "none", db_type |-> "", connection_params |-> <<>>, db_path |-> None,
     connection_string |-> <<>>, engine |-> FALSE, err |-> ""]

\* DatabaseConnection(db_type, **kwargs): the configuration branches, then
\* create_engine, which needs the backend's driver module and makes no
\* connection. state is "ok" when the caller got the object, "raised" when the
\* constructor raised.
Construct(db_type, kwargs, driver_installed) ==
    LET o == [NoObject EXCEPT !.db_type = db_type, !.connection_params = kwargs]
    IN IF Unsupported(db_type)
       THEN [o EXCEPT !.state = "raised",
                      !.err = "ValueError: Unsupported database type"]
       ELSE LET c == [o EXCEPT !.db_path = DbPath(db_type, kwargs),
                               !.connection_string = ConnectionString(db_type, kwargs)]
            IN IF db_type # "sqlite" /\ ~driver_installed
               THEN [c EXCEPT !.state = "raised", !.err = "ModuleNotFoundError"]
               ELSE [c EXCEPT !.state = "ok", !.engine = TRUE]

\* DatabaseConnection(): what app.py and the pages construct.
DefaultObject == Construct("sqlite", <<>>, TRUE)

\* ------------------------------------------------------------------ backup

\* datetime.now().strftime("%Y%m%d_%H%M%S") at the model's instants: one text
\* per second.
Stamps ==
    <<"20250110_120000", "20250110_120001", "20250110_120002", "20250110_120003",
      "20250110_120004", "20250110_120005", "20250110_120006", "20250110_120007">>

Stamp(now) == Stamps[Min(now, Len(Stamps) - 1) + 1]

\* The destinations a caller may pass: none (None or ""), a path of its own,
\* the data file itself.
BackupPaths == {<<>>, <<"backups/manual.db">>, <<"cricket_analytics.db">>}

\* No backup made yet. arg is the destination the last call was given, log
\* the copies attempted so far, in order.
NoBackup ==
    [ret |-> "none", attempted |-> FALSE, failed |-> FALSE, arg |-> <<>>,
     path |-> <<>>, files |-> {}, log |-> <<>>]

\* f"cricket_analytics_backup_{timestamp}.db": a text is the concatenation of
\* its fragments, cut before and after "_backup_" and at the last dot.
DefaultBackupPath(timestamp) == <<"cricket_analytics", "_backup_", timestamp, ".", "db">>

\* A backup_database without the backend check.
BackupSupportedAlways(db_type) == TRUE

\* if self.db_type != 'sqlite': return False
BackupSupported(db_type) == db_type = "sqlite"

\* A backup_database without the try/except around the copy.
BackupResultUncaught(raised) == IF raised THEN "raised" ELSE "True"

\* try: copy2 ... return True / except Exception: return False
BackupResult(raised) == IF raised THEN "False" ELSE "True"

\* backup_database(backup_path) on object obj at instant now, the data file
\* holding `source`; copy_ok is whether the destination can be written.
\* shutil.copy2 raises when the object has no db_path, when the destination is
\* the data file itself, and when the destination cannot be written.
BackupDatabase(obj, b, backup_path, copy_ok, now, source) ==
    IF ~BackupSupported(obj.db_type)
    THEN [b EXCEPT !.ret = "False", !.attempted = FALSE, !.failed = FALSE,
                   !.arg = backup_path, !.path = <<>>]
    ELSE LET path == IF backup_path = <<>>
                     THEN DefaultBackupPath(Stamp(now))
                     ELSE backup_path
             raised == obj.db_path = None \/ path = <<obj.db_path>> \/ ~copy_ok
         IN [ret |-> BackupResult(raised), attempted |-> TRUE, failed |-> raised,
             arg |-> backup_path,
             path |-> path,
             files |-> IF raised THEN b.files
                       ELSE {f \in b.files : f.path # path}
                            \cup {[path |-> path, content |-> source]},
             log |-> Append(b.log, [arg |-> backup_path, path |-> path,
                                    failed |-> raised])]

\* ------------------------------------------------------------------ session state

\* Streamlit keeps a widget's value only while the widget is rendered: a widget
\* that a run does not render starts from its default in the next run that
\* renders it. confirm_run is the run that last rendered the confirmation
\* checkbox (0: none), confirm its value.
NoSession == [confirm_run |-> 0, confirm |-> FALSE, query_history |-> <<>>]

\* ------------------------------------------------------------------ concurrent sessions

\* Two browser sessions: Streamlit runs main() for each in a thread of its own,
\* against the one data file.
Sessions == {1, 2}

\* No concurrent start-up under way.
NoPeers == [s \in Sessions |-> [pc |-> "none", idx |-> 0]]

\* ------------------------------------------------------------------ API specification

\* Free text a caller may bind, SQL metacharacters included.
FreeText == {"Test Player", "O'Brien", "x'; DROP TABLE players; --"}

\* The bound values of a player insert, for a name and a date of birth.
PlayerParams(name, dob) ==
    <<name, "India", "Batsman", None, None, dob, 120, 3, 405, 0, 880, 0>>

InitApi ==
    /\ store \in InitStores
    /\ conns = 0
    /\ work = store
    /\ eq = NoCall
    /\ events = <<>>
    /\ faults = 0
    /\ clock = 1
    /\ calls = 0
    /\ pc = "api"
    /\ idx = 0
    /\ fired = FALSE
    /\ todo = <<>>
    /\ selected = <<>>
    /\ msg = ""
    /\ runs = 0
    /\ snap = [ctStart |-> store, seedStart |-> store, seedInserts |-> 0,
               form |-> NoForm]
    /\ db = DefaultObject
    /\ backup = NoBackup
    /\ session = NoSession
    /\ peers = NoPeers

\* A caller invokes execute_query directly.
ApiCall ==
    /\ AtCaller
    /\ calls < MaxCalls
    /\ calls' = calls + 1
    /\ events' = <<>>
    /\ \E fetch \in BOOLEAN :
         \/ \E i \in 1..Len(tables) : eq' = Call(tables[i], <<>>, fetch)
         \/ \E q \in {count_query, players_query} : eq' = Call(q, <<>>, fetch)
         \/ \E q \in {create_player_query, insert_player_query}, name \in FreeText,
               dob \in {None, "date(1990-05-17)"} :
                 eq' = Call(q, PlayerParams(name, dob), fetch)
         \/ \E name \in FreeText : eq' = Call(player_by_name_query, <<name>>, fetch)
         \/ \E q \in {delete_player_stats_query, delete_player_query}, id \in 1..2 :
                 eq' = Call(q, <<id>>, fetch)
    /\ UNCHANGED <<store, conns, work, faults, clock, scriptVars>>

NextApi == ApiCall \/ EqConnect \/ EqExecute \/ EqCommit \/ EqClose

SpecApi == InitApi /\ [][NextApi]_vars

\* ------------------------------------------------------------------ object specification

\* A caller that constructs DatabaseConnection objects and uses the one it
\* holds: no object at first.
InitObject ==
    /\ store \in InitStores
    /\ conns = 0
    /\ work = store
    /\ eq = NoCall
    /\ events = <<>>
    /\ faults = 0
    /\ clock = 0
    /\ calls = 0
    /\ pc = "object"
    /\ idx = 0
    /\ fired = FALSE
    /\ todo = <<>>
    /\ selected = <<>>
    /\ msg = ""
    /\ runs = 0
    /\ snap = [ctStart |-> store, seedStart |-> store, seedInserts |-> 0,
               form |-> NoForm]
    /\ db = NoObject
    /\ backup = NoBackup
    /\ session = NoSession
    /\ peers = NoPeers

\* DatabaseConnection(db_type, **kwargs): the caller holds the new object, or
\* none when the constructor raised; no call was made through it yet. (The
\* caller settles on its object before it starts to query.)
DatabaseConnection ==
    /\ pc = "object"
    /\ eq.stage = "none"
    /\ calls < MaxCalls
    /\ calls' = calls + 1
    /\ \E db_type \in Kinds, driver_installed \in BOOLEAN :
         \E kwargs \in IF db_type = "sqlite" THEN SqliteKwargs ELSE Kwargs :
            db' = Construct(db_type, kwargs, driver_installed)
    /\ eq' = NoCall
    /\ events' = <<>>
    /\ UNCHANGED <<store, conns, work, faults, clock, pc, idx, fired, todo,
                   selected, msg, runs, snap, backup, session, peers>>

\* db.backup_database(backup_path), some time after the previous call.
backup_database ==
    /\ pc = "object"
    /\ AtCaller
    /\ db.state = "ok"
    /\ calls < MaxCalls
    /\ calls' = calls + 1
    /\ \E backup_path \in BackupPaths, copy_ok \in BOOLEAN, elapsed \in {0, 1} :
         /\ clock' = clock + elapsed
         /\ backup' = BackupDatabase(db, backup, backup_path, copy_ok, clock', store)
    /\ UNCHANGED <<store, conns, work, eq, events, faults, pc, idx, fired, todo,
                   selected, msg, runs, snap, db, session, peers>>

\* db.execute_query(...) through an SQLite object (the client-server kinds
\* need a server, which the model does not hold).
ObjectCall ==
    /\ pc = "object"
    /\ AtCaller
    /\ db.state = "ok"
    /\ db.db_type = "sqlite"
    /\ calls < MaxCalls
    /\ calls' = calls + 1
    /\ events' = <<>>
    /\ \E fetch \in BOOLEAN :
         \/ eq' = Call(players_table, <<>>, fetch)
         \/ eq' = Call(count_query, <<>>, fetch)
         \/ eq' = Call(create_player_query, PlayerParams("O'Brien", None), fetch)
    /\ UNCHANGED <<store, conns, work, faults, clock, scriptVars>>

NextObject ==
    \/ DatabaseConnection
    \/ backup_database
    \/ ObjectCall
    \/ EqConnect
    \/ EqExecute
    \/ EqCommit
    \/ EqClose

SpecObject == InitObject /\ [][NextObject]_vars

\* ------------------------------------------------------------------ the script run

\* How many records one delete may have selected in the multiselect.
MaxSelected == 2

Init ==
    /\ store \in InitStores
    /\ conns = 0
    /\ work = store
    /\ eq = NoCall
    /\ events = <<>>
    /\ faults = 0
    /\ clock = 0
    /\ calls = 0
    /\ pc = "idle"
    /\ idx = 0
    /\ fired = FALSE
    /\ todo = <<>>
    /\ selected = <<>>
    /\ msg = ""
    /\ runs = 0
    /\ snap = [ctStart |-> store, seedStart |-> store, seedInserts |-> 0,
               form |-> NoForm]
    /\ db = DefaultObject
    /\ backup = NoBackup
    /\ session = NoSession
    /\ peers = NoPeers

\* The caller invokes execute_query(stmt.query, stmt.params, fetch).
Invoke(stmt, fetch) ==
    /\ eq' = Call(stmt.query, stmt.params, fetch)
    /\ events' = <<>>

\* The caller goes on without calling execute_query.
NoInvoke == UNCHANGED <<eq, events>>

dbVars == <<store, conns, work, faults, objVars>>

\* A table loop without its try/except.
CreateErrorUncaught == FALSE

\* try/except around each table's creation: logged, the loop goes on.
CreateErrorCaught == TRUE

\* try/except around each sample row's insert: logged, the loop goes on.
SeedErrorCaught == TRUE

\* A user interaction reruns the script: main() builds a DatabaseConnection and
\* calls create_tables.
RunStart ==
    /\ pc \in {"idle", "crashed"}
    /\ runs < MaxRuns
    /\ runs' = runs + 1
    /\ clock' = clock + 1
    /\ pc' = "create_tables"
    /\ idx' = 1
    /\ fired' = FALSE
    /\ todo' = <<>>
    /\ selected' = <<>>
    /\ msg' = ""
    /\ snap' = [snap EXCEPT !.ctStart = store, !.form = NoForm]
    /\ eq' = NoCall
    /\ events' = <<>>
    /\ UNCHANGED <<dbVars, calls>>

\* create_tables: for table_sql in tables: try execute_query(table_sql, fetch=False)
create_tables ==
    /\ pc = "create_tables"
    /\ AtCaller
    /\ IF eq.stage = "raised" /\ ~CreateErrorCaught
       THEN pc' = "crashed" /\ NoInvoke /\ UNCHANGED idx
       ELSE IF idx <= Len(CreateCalls)
       THEN Invoke(CreateCalls[idx], FALSE) /\ idx' = idx + 1 /\ UNCHANGED pc
       ELSE pc' = "insert_sample_data" /\ NoInvoke /\ UNCHANGED idx
    /\ UNCHANGED <<dbVars, clock, calls, fired, todo, selected, msg, runs, snap>>

\* How many rows the count query reported (player_count.iloc[0]['count']).
CountOf(value) == (CHOOSE r \in value.rows : TRUE).count

\* Whether _insert_sample_data returns without seeding, given the finished
\* count query: it answered, and with a count above zero. (When the query
\* raised, the bare except passes and the seeding goes on.)
DataExists(call) == call.stage = "returned" /\ CountOf(call.value) > 0

\* _insert_sample_data: the count query, then the three insert loops.
insert_sample_data ==
    /\ pc \in {"insert_sample_data", "seed_count", "seed_rows"}
    /\ AtCaller
    /\ CASE pc = "insert_sample_data" ->
              /\ Invoke(Stmt(count_query, <<>>), TRUE)
              /\ pc' = "seed_count"
              /\ snap' = [snap EXCEPT !.seedStart = store, !.seedInserts = 0]
              /\ UNCHANGED idx
         [] pc = "seed_count" ->
              /\ NoInvoke
              /\ UNCHANGED snap
              /\ IF DataExists(eq)
                 THEN pc' = "page" /\ UNCHANGED idx
                 ELSE pc' = "seed_rows" /\ idx' = 1
         [] pc = "seed_rows" ->
              IF eq.stage = "raised" /\ idx > 1 /\ ~SeedErrorCaught
              THEN pc' = "crashed" /\ NoInvoke /\ UNCHANGED <<idx, snap>>
              ELSE IF idx <= Len(SeedCalls)
              THEN /\ Invoke(SeedCalls[idx], FALSE)
                   /\ idx' = idx + 1
                   /\ snap' = [snap EXCEPT !.seedInserts = @ + 1]
                   /\ UNCHANGED pc
              ELSE pc' = "page" /\ NoInvoke /\ UNCHANGED <<idx, snap>>
    /\ UNCHANGED <<dbVars, clock, calls, fired, todo, selected, msg, runs>>

\* main, the Quick Stats block of the sidebar: one connection of its own,
\* two counts through its cursor, and get_connection's finally at the end of
\* the with block. A missing table makes the count raise; the except shows
\* the error in the sidebar and main goes on to the page.
main_quick_stats ==
    /\ pc \in {"page", "quick_stats"}
    /\ AtCaller
    /\ NoInvoke
    /\ IF pc = "page"
       THEN /\ conns' = conns + 1
            /\ pc' = "quick_stats"
       ELSE /\ conns' = AfterWith(IF {"players", "matches"} \subseteq store.tables
                                  THEN "leaving" ELSE "failing", conns)
            /\ pc' = "routing"
    /\ UNCHANGED <<store, work, faults, objVars, clock, calls, idx, fired, todo,
                   selected, msg, runs, snap>>

\* The statements show_home_page passes to execute_query, in order.
HomeCalls ==
    <<Stmt(player_roles_query, <<>>), Stmt(country_query, <<>>),
      Stmt(recent_players_query, <<>>)>>

\* Page routing: Home. The metrics block holds a connection of its own for
\* four counts; then the three reads go through execute_query one after the
\* other. One try/except spans the page: the first failure ends it.
show_home_page ==
    /\ pc \in {"routing", "home_metrics", "home_charts"}
    /\ AtCaller
    /\ CASE pc = "routing" ->
              /\ conns' = conns + 1
              /\ pc' = "home_metrics"
              /\ NoInvoke
              /\ UNCHANGED <<idx, msg>>
         [] pc = "home_metrics" ->
              LET counted == {"players", "teams", "venues", "matches"} \subseteq store.tables
              IN /\ conns' = AfterWith(IF counted THEN "leaving" ELSE "failing", conns)
                 /\ NoInvoke
                 /\ idx' = 1
                 /\ IF counted
                    THEN pc' = "home_charts" /\ UNCHANGED msg
                    ELSE pc' = "idle" /\ msg' = "Error loading dashboard data"
         [] pc = "home_charts" ->
              /\ UNCHANGED conns
              /\ IF idx > 1 /\ eq.stage = "raised"
                 THEN /\ pc' = "idle"
                      /\ msg' = "Error loading dashboard data"
                      /\ NoInvoke
                      /\ UNCHANGED idx
                 ELSE IF idx <= Len(HomeCalls)
                 THEN /\ Invoke(HomeCalls[idx], TRUE)
                      /\ idx' = idx + 1
                      /\ UNCHANGED <<pc, msg>>
                 ELSE pc' = "idle" /\ NoInvoke /\ UNCHANGED <<idx, msg>>
    /\ UNCHANGED <<store, work, faults, objVars, clock, calls, fired, todo,
                   selected, runs, snap>>

\* Page routing: Live Matches, Top Player Stats, the predefined analytics.
show_other_page ==
    /\ pc = "routing"
    /\ pc' = "idle"
    /\ NoInvoke
    /\ UNCHANGED <<dbVars, clock, calls, idx, fired, todo, selected, msg, runs, snap>>

\* Page routing: CRUD Operations; its four tabs are rendered one after another.
show_crud_operations ==
    /\ pc = "routing"
    /\ pc' = "crud_create"
    /\ NoInvoke
    /\ UNCHANGED <<dbVars, clock, calls, idx, fired, todo, selected, msg, runs, snap>>

\* ------------------------------------------------------------------ create forms

\* What the user may have entered in each create form.
PlayerForms ==
    [name : {"", "O'Brien"}, country : {"India"}, playing_role : {"", "Batsman"},
     batting_style : {""}, bowling_style : {"Right-arm fast"},
     date_of_birth : {None, "date(1990-05-17)"},
     total_runs : {120}, total_wickets : {3}, batting_average : {405},
     bowling_average : {0}, strike_rate : {880}, economy_rate : {0}]

MatchForms ==
    [match_title : {"", "IND vs AUS - 3rd ODI"}, team1 : {"India"}, team2 : {"Australia"},
     venue_name : {"Wankhede Stadium"}, venue_city : {""}, venue_country : {""},
     match_date : {"date(2025-01-10)"}, match_format : {"ODI"}, toss_winner : {""},
     toss_decision : {""}, winner : {""}, victory_margin : {""}, victory_type : {""},
     man_of_match : {""}, match_status : {"Scheduled"}]

VenueForms ==
    [venue_name : {"", "Chepauk"}, city : {"Chennai"}, country : {"India"},
     capacity : {0}, pitch_type : {"Spin-friendly"}]

TeamForms ==
    [team_name : {"", "India", "Mumbai Indians"}, country : {"India"},
     team_type : {"Franchise"}, matches_played : {10}, matches_won : {5},
     matches_lost : {5}, matches_tied : {0}]

SeriesForms ==
    [series_name : {"", "Border-Gavaskar Trophy"}, series_type : {""},
     host_country : {"India"}, start_date : {"date(2025-01-10)"}, end_date : {None},
     total_matches : {3}, matches_completed : {0}]

\* The statement and the parameter tuple each form passes to execute_query.
CreatePlayerCall(f) ==
    Stmt(create_player_query,
         <<f.name, f.country, f.playing_role, OrNone(f.batting_style),
           OrNone(f.bowling_style), f.date_of_birth, f.total_runs, f.total_wickets,
           f.batting_average, f.bowling_average, f.strike_rate, f.economy_rate>>)

CreateMatchCall(f) ==
    Stmt(create_match_query,
         <<f.match_title, f.team1, f.team2, OrNone(f.venue_name), OrNone(f.venue_city),
           OrNone(f.venue_country), f.match_date, f.match_format, OrNone(f.toss_winner),
           OrNone(f.toss_decision), OrNone(f.winner), OrNone(f.victory_margin),
           OrNone(f.victory_type), OrNone(f.man_of_match), f.match_status>>)

CreateVenueCall(f) ==
    Stmt(create_venue_query,
         <<f.venue_name, f.city, f.country, OrNoneInt(f.capacity), OrNone(f.pitch_type)>>)

\* win_percentage = matches_won / matches_played * 100 when matches were played
\* (in tenths), else 0.
WinPercentage(f) ==
    IF f.matches_played > 0 THEN (f.matches_won * 1000) \div f.matches_played ELSE 0

CreateTeamCall(f) ==
    Stmt(create_team_query,
         <<f.team_name, f.country, OrNone(f.team_type), f.matches_played, f.matches_won,
           f.matches_lost, f.matches_tied, WinPercentage(f)>>)

CreateSeriesCall(f) ==
    Stmt(create_series_query,
         <<f.series_name, OrNone(f.series_type), f.host_country, f.start_date,
           f.end_date, f.total_matches, f.matches_completed>>)

\* A submitted create form: the required fields are checked, then the insert
\* is made in write mode.
SubmitForm(valid, stmt) ==
    /\ pc = "crud_create"
    /\ ~fired
    /\ fired' = TRUE
    /\ IF valid
       THEN Invoke(stmt, FALSE) /\ pc' = "crud_created" /\ UNCHANGED msg
       ELSE NoInvoke /\ pc' = "crud_read"
            /\ msg' = "Please fill in all required fields marked with *"
    /\ UNCHANGED <<dbVars, clock, calls, idx, todo, selected, runs, snap>>

\* A player form that inserts whatever was entered.
PlayerFormValidAlways(f) == TRUE

\* if not name or not country or not playing_role: st.error(...)
PlayerFormValid(f) == f.name # "" /\ f.country # "" /\ f.playing_role # ""

create_player_form ==
    \E f \in PlayerForms :
        SubmitForm(PlayerFormValid(f), CreatePlayerCall(f))

create_match_form ==
    \E f \in MatchForms :
        SubmitForm(f.match_title # "" /\ f.team1 # "" /\ f.team2 # "" /\ f.match_format # "",
                   CreateMatchCall(f))

create_venue_form ==
    \E f \in VenueForms :
        SubmitForm(f.venue_name # "" /\ f.city # "" /\ f.country # "", CreateVenueCall(f))

create_team_form ==
    \E f \in TeamForms :
        SubmitForm(f.team_name # "" /\ f.country # "", CreateTeamCall(f))

create_series_form ==
    \E f \in SeriesForms :
        SubmitForm(f.series_name # "" /\ f.host_country # "", CreateSeriesCall(f))

\* show_create_operations when no form was submitted, and the end of a
\* submitted form's try block (st.success or st.error).
show_create_operations ==
    /\ pc \in {"crud_create", "crud_created"}
    /\ AtCaller
    /\ msg' = IF pc = "crud_create" THEN msg
              ELSE IF eq.stage = "returned" THEN "added successfully"
              ELSE "Error adding record"
    /\ pc' = "crud_read"
    /\ NoInvoke
    /\ UNCHANGED <<dbVars, clock, calls, idx, fired, todo, selected, runs, snap>>

\* ------------------------------------------------------------------ browse

\* The tables the browse selectbox offers.
BrowseTables == {"players", "matches", "teams", "venues", "series", "player_statistics"}

\* The search box's content.
SearchTerms == {"", "India", "O'Brien", "x'; DROP TABLE players; --"}

\* The default of the "Records to show" input.
DefaultLimit == 50

\* A browse that puts the search term into the statement text.
BrowseCallInterpolated(selected_table, search_term, limit) ==
    Stmt(<<"SELECT * FROM ", selected_table, " WHERE name LIKE '%", search_term,
           "%' LIMIT ?">>, <<limit>>)

\* show_read_operations: the statement and the parameter tuple it builds.
BrowseCall(selected_table, search_term, limit) ==
    IF search_term # "" /\ selected_table = "players"
    THEN Stmt(BrowsePlayers(selected_table),
              <<search_term, search_term, search_term, limit>>)
    ELSE IF search_term # "" /\ selected_table = "matches"
    THEN Stmt(BrowseMatches(selected_table),
              <<search_term, search_term, search_term, search_term, limit>>)
    ELSE Stmt(BrowseAll(selected_table), <<limit>>)

\* show_read_operations: the Refresh button reruns the script; otherwise the
\* query is built and executed in read mode, and an error is shown if it raises.
show_read_operations ==
    /\ pc \in {"crud_read", "crud_browsed"}
    /\ AtCaller
    /\ IF pc = "crud_read"
       THEN \E selected_table \in BrowseTables, search_term \in SearchTerms,
               refresh \in BOOLEAN :
                IF refresh /\ ~fired
                THEN pc' = "idle" /\ NoInvoke /\ UNCHANGED msg
                ELSE /\ Invoke(BrowseCall(selected_table, search_term, DefaultLimit), TRUE)
                     /\ pc' = "crud_browsed"
                     /\ UNCHANGED msg
       ELSE /\ pc' = "crud_update"
            /\ NoInvoke
            /\ msg' = IF eq.stage = "raised" THEN "Error reading data" ELSE msg
    /\ UNCHANGED <<dbVars, clock, calls, idx, fired, todo, selected, runs, snap>>

\* ------------------------------------------------------------------ update

\* The tables the update and the delete selectboxes offer.
ChangeTables == {"players", "matches", "teams", "venues", "series"}

\* What the user may have entered in the update forms (number_input without
\* min_value: negative numbers are accepted).
PlayerUpdates ==
    [name : {"", "O'Brien"}, country : {"India"}, playing_role : {"Bowler"},
     total_runs : {0 - 5, 7}, total_wickets : {3}, batting_average : {405},
     bowling_average : {0}, strike_rate : {880}, economy_rate : {0}]

MatchUpdates ==
    [winner : {"", "India"}, victory_margin : {"5 wickets"}, victory_type : {"Wickets"},
     man_of_match : {""}, match_status : {"Completed"}]

UpdatePlayerCall(f, player_id) ==
    Stmt(update_player_query,
         <<f.name, f.country, f.playing_role, f.total_runs, f.total_wickets,
           f.batting_average, f.bowling_average, f.strike_rate, f.economy_rate,
           player_id>>)

UpdateMatchCall(f, match_id) ==
    Stmt(update_match_query,
         <<OrNone(f.winner), OrNone(f.victory_margin), OrNone(f.victory_type),
           OrNone(f.man_of_match), f.match_status, match_id>>)

\* show_update_operations: the table is picked, and its record list is loaded.
show_update_operations ==
    /\ pc = "crud_update"
    /\ AtCaller
    /\ \E selected_table \in ChangeTables :
         IF selected_table = "players"
         THEN Invoke(Stmt(players_query, <<>>), TRUE) /\ pc' = "update_players"
         ELSE IF selected_table = "matches"
         THEN Invoke(Stmt(matches_query, <<>>), TRUE) /\ pc' = "update_matches"
         ELSE NoInvoke /\ pc' = "crud_delete"
    /\ UNCHANGED <<dbVars, clock, calls, idx, fired, todo, selected, msg, runs, snap>>

\* The calls a submitted update form may make for the record it was opened on.
PlayerUpdateCalls(id) == {UpdatePlayerCall(f, id) : f \in PlayerUpdates}

MatchUpdateCalls(id) == {UpdateMatchCall(f, id) : f \in MatchUpdates}

UpdateCalls(what, id) ==
    IF what = "players" THEN PlayerUpdateCalls(id) ELSE MatchUpdateCalls(id)

\* update_player_records / update_match_records, from the loaded record list on:
\* the record is picked, its current row is read with the identifier as a bound
\* parameter, the form is shown, and a submitted form is written back.
UpdateRecords(listed, current, done, id_column, current_query, what) ==
    /\ pc \in {listed, current, done}
    /\ AtCaller
    /\ IF eq.stage = "raised"
       THEN /\ pc' = "crud_delete"
            /\ NoInvoke
            /\ msg' = IF pc = done THEN "Error updating " \o what
                      ELSE "Error loading " \o what
            /\ UNCHANGED fired
       ELSE IF pc = done
       THEN /\ pc' = "idle"             \* st.success, st.rerun()
            /\ NoInvoke
            /\ msg' = what \o " updated successfully"
            /\ UNCHANGED fired
       ELSE IF eq.value.rows = {}
       THEN pc' = "crud_delete" /\ NoInvoke /\ UNCHANGED <<msg, fired>>
       ELSE IF pc = listed
       THEN \E pick \in {0} \cup {r[id_column] : r \in eq.value.rows} :
               IF pick = 0
               THEN pc' = "crud_delete" /\ NoInvoke /\ UNCHANGED <<msg, fired>>
               ELSE /\ Invoke(Stmt(current_query, <<pick>>), TRUE)
                    /\ pc' = current
                    /\ UNCHANGED <<msg, fired>>
       ELSE \E submitted \in BOOLEAN, row \in eq.value.rows :
               IF submitted /\ ~fired
               THEN \E call \in UpdateCalls(what, row[id_column]) :
                       /\ Invoke(call, FALSE)
                       /\ pc' = done
                       /\ fired' = TRUE
                       /\ UNCHANGED msg
               ELSE pc' = "crud_delete" /\ NoInvoke /\ UNCHANGED <<msg, fired>>
    /\ UNCHANGED <<dbVars, clock, calls, idx, todo, selected, runs, snap>>

update_player_records ==
    UpdateRecords("update_players", "update_player_form", "update_player_done",
                  "player_id", current_player_query, "players")

update_match_records ==
    UpdateRecords("update_matches", "update_match_form", "update_match_done",
                  "match_id", current_match_query, "matches")

\* ------------------------------------------------------------------ delete

\* What may be typed into the "Type 'DELETE' to confirm" box.
ConfirmTexts == {"", "delete", "DELETE"}

\* The option labels of the two multiselects (the keys of the options dict).
PlayerLabel(r) == <<r.name, r.country>>

MatchLabel(r) == <<r.match_title, r.match_date>>

OptionLabel(what, r) == IF what = "players" THEN PlayerLabel(r) ELSE MatchLabel(r)

\* The multiselect's value: option labels in the order they were picked, each
\* standing for the one identifier the options dict maps it to. The options
\* were on the screen before this run, so they are records the store held when
\* the run began.
Picks(rows, shown, id_column, what) ==
    LET ids == {r[id_column] : r \in rows} \cap {r[id_column] : r \in shown}
        row(id) == CHOOSE r \in rows : r[id_column] = id
    IN {s \in UNION {[1..n -> ids] : n \in 0..MaxSelected} :
          \A i, j \in DOMAIN s :
             i # j => OptionLabel(what, row(s[i])) # OptionLabel(what, row(s[j]))}

\* A player delete that leaves the dependent rows alone.
PlayerDeleteParentOnly(player_id) == <<Stmt(delete_player_query, <<player_id>>)>>

\* The calls the delete loops make for one selected record, in order: the
\* dependent player_statistics rows first, then the parent row.
PlayerDeleteCalls(player_id) ==
    <<Stmt(delete_player_stats_query, <<player_id>>),
      Stmt(delete_player_query, <<player_id>>)>>

MatchDeleteCalls(match_id) ==
    <<Stmt(delete_match_stats_query, <<match_id>>),
      Stmt(delete_match_query, <<match_id>>)>>

DeleteCalls(what, id) ==
    IF what = "players" THEN PlayerDeleteCalls(id) ELSE MatchDeleteCalls(id)

\* show_delete_operations: the permanence checkbox, then the table.
show_delete_operations ==
    /\ pc = "crud_delete"
    /\ AtCaller
    /\ \E confirm_delete \in BOOLEAN, selected_table \in ChangeTables :
         /\ snap' = [snap EXCEPT !.form.confirm_delete = confirm_delete]
         /\ IF ~confirm_delete THEN NoInvoke /\ pc' = "idle"
            ELSE IF selected_table = "players"
            THEN Invoke(Stmt(players_query, <<>>), TRUE) /\ pc' = "delete_players"
            ELSE IF selected_table = "matches"
            THEN Invoke(Stmt(matches_query, <<>>), TRUE) /\ pc' = "delete_matches"
            ELSE NoInvoke /\ pc' = "idle"
    /\ UNCHANGED <<dbVars, clock, calls, idx, fired, todo, selected, msg, runs>>

\* A delete page that takes any typed text for the confirmation.
DeleteConfirmedLoosely(picked, final_confirm, pressed) ==
    picked # <<>> /\ final_confirm # "" /\ pressed

\* if selected_players: ... if final_confirm == "DELETE": if st.button(...):
DeleteConfirmed(picked, final_confirm, pressed) ==
    picked # <<>> /\ final_confirm = "DELETE" /\ pressed

\* A delete loop with a try/except of its own around each record.
DeleteErrorSkipped == FALSE

\* The try/except around the whole for loop: the first call that raises ends
\* the loop.
DeleteErrorEndsLoop == TRUE

\* delete_player_records / delete_match_records, from the loaded record list on:
\* the selection, the typed confirmation and the button; then, for each selected
\* record, its calls in order, the first one that raises ending the loop.
DeleteRecords(listed, loop, shown, id_column, what) ==
    /\ pc \in {listed, loop}
    /\ AtCaller
    /\ IF eq.stage = "raised" /\ (pc = listed \/ DeleteErrorEndsLoop)
       THEN /\ pc' = "idle"
            /\ NoInvoke
            /\ msg' = IF pc = loop THEN "Error deleting " \o what
                      ELSE "Error loading " \o what
            /\ UNCHANGED <<idx, fired, todo, selected, snap>>
       ELSE IF pc = loop
       THEN IF todo = <<>>
            THEN /\ pc' = "idle"         \* st.success, st.rerun()
                 /\ NoInvoke
                 /\ msg' = "Successfully deleted " \o what
                 /\ UNCHANGED <<idx, fired, todo, selected, snap>>
            ELSE /\ Invoke(DeleteCalls(what, Head(todo))[idx], FALSE)
                 /\ IF idx < Len(DeleteCalls(what, Head(todo)))
                    THEN idx' = idx + 1 /\ UNCHANGED todo
                    ELSE idx' = 1 /\ todo' = Tail(todo)
                 /\ UNCHANGED <<pc, msg, fired, selected, snap>>
       ELSE IF eq.value.rows = {}
       THEN pc' = "idle" /\ NoInvoke /\ UNCHANGED <<idx, fired, todo, selected, msg, snap>>
       ELSE \E picked \in Picks(eq.value.rows, shown, id_column, what),
               final_confirm \in ConfirmTexts, pressed \in BOOLEAN :
               /\ snap' = [snap EXCEPT !.form.final_confirm = final_confirm,
                                        !.form.pressed = pressed]
               /\ IF DeleteConfirmed(picked, final_confirm, pressed) /\ ~fired
                  THEN /\ pc' = loop
                       /\ idx' = 1
                       /\ fired' = TRUE
                       /\ todo' = picked
                       /\ selected' = picked
                       /\ NoInvoke
                       /\ UNCHANGED msg
                  ELSE /\ pc' = "idle"
                       /\ NoInvoke
                       /\ msg' = IF picked # <<>> /\ final_confirm \notin {"", "DELETE"}
                                 THEN "Please type 'DELETE' exactly to confirm" ELSE msg
                       /\ UNCHANGED <<idx, fired, todo, selected>>
    /\ UNCHANGED <<dbVars, clock, calls, runs>>

delete_player_records ==
    DeleteRecords("delete_players", "delete_player_loop", snap.ctStart.players,
                  "player_id", "players")

delete_match_records ==
    DeleteRecords("delete_matches", "delete_match_loop", snap.ctStart.matches,
                  "match_id", "matches")

\* ------------------------------------------------------------------ concurrent start-up

\* Two sessions enter create_tables at the same time on a fresh data file.
InitConcurrent ==
    /\ store = EmptyStore
    /\ conns = 0
    /\ work = store
    /\ eq = NoCall
    /\ events = <<>>
    /\ faults = 0
    /\ clock = 1
    /\ calls = 0
    /\ pc = "concurrent"
    /\ idx = 0
    /\ fired = FALSE
    /\ todo = <<>>
    /\ selected = <<>>
    /\ msg = ""
    /\ runs = 0
    /\ snap = [ctStart |-> store, seedStart |-> store, seedInserts |-> 0,
               form |-> NoForm]
    /\ db = DefaultObject
    /\ backup = NoBackup
    /\ session = NoSession
    /\ peers = [s \in Sessions |-> [pc |-> "create_tables", idx |-> 1]]

\* One session runs its next execute_query call of create_tables and
\* _insert_sample_data to the end: each call is a connection and a transaction
\* of its own, and SQLite lets one writer in at a time, so the calls of the
\* two sessions interleave as wholes. Nothing fails here.
create_tables_concurrently ==
    /\ pc = "concurrent"
    /\ \E s \in Sessions :
         LET me == peers[s]
             Run(call) == Exec(store, call.query, call.params, clock).store
         IN CASE me.pc = "create_tables" ->
                   /\ store' = Run(CreateCalls[me.idx])
                   /\ peers' = [peers EXCEPT ![s] =
                                   IF me.idx < Len(CreateCalls)
                                   THEN [me EXCEPT !.idx = @ + 1]
                                   ELSE [me EXCEPT !.pc = "insert_sample_data"]]
              [] me.pc = "insert_sample_data" ->
                   \* player_count = execute_query(count_query); stop if not empty
                   /\ UNCHANGED store
                   /\ peers' = [peers EXCEPT ![s] =
                                   IF store.players # {}
                                   THEN [pc |-> "done", idx |-> 0]
                                   ELSE [pc |-> "seed_rows", idx |-> 1]]
              [] me.pc = "seed_rows" ->
                   /\ store' = Run(SeedCalls[me.idx])
                   /\ peers' = [peers EXCEPT ![s] =
                                   IF me.idx < Len(SeedCalls)
                                   THEN [me EXCEPT !.idx = @ + 1]
                                   ELSE [pc |-> "done", idx |-> 0]]
              [] OTHER -> FALSE
    /\ work' = store'
    /\ UNCHANGED <<conns, eq, events, faults, clock, calls, pc, idx, fired, todo,
                   selected, msg, runs, snap, db, backup, session>>

SpecConcurrent == InitConcurrent /\ [][create_tables_concurrently]_vars

\* ------------------------------------------------------------------ custom queries

\* What the user may have in the SQL text area.
CustomQueries ==
    {default_query,
     <<"drop", "table", "players">>,
     <<"DELETE", "FROM", "players">>,
     <<"Update", "players", "set", "total_runs", "=", "0">>,
     <<"SELECT", "name,", "created_at", "FROM", "players">>,
     <<" ">>}

\* A text area content whose letters are left as typed.
UpperAsTyped(word) == word

\* str.upper() on the words of the model.
Upper(word) ==
    CASE word = "drop" -> "DROP"
      [] word = "table" -> "TABLE"
      [] word = "players" -> "PLAYERS"
      [] word = "Update" -> "UPDATE"
      [] word = "set" -> "SET"
      [] word = "total_runs" -> "TOTAL_RUNS"
      [] word = "name," -> "NAME,"
      [] word = "created_at" -> "CREATED_AT"
      [] word = "-- Write your SQL query here" -> "-- WRITE YOUR SQL QUERY HERE"
      [] OTHER -> word

\* keyword in query_upper, word by word: the keyword is the word, or a part
\* of it.
Within(keyword, word) ==
    \/ keyword = word
    \/ keyword = "CREATE" /\ word = "CREATED_AT"

dangerous_keywords == {"DROP", "DELETE", "UPDATE", "INSERT", "ALTER", "CREATE"}

\* has_dangerous = any(keyword in query_upper for keyword in dangerous_keywords)
HasDangerous(custom_query) ==
    \E keyword \in dangerous_keywords, i \in DOMAIN custom_query :
        Within(keyword, Upper(custom_query[i]))

\* custom_query.strip(): empty for a text of blanks.
Strip(custom_query) == IF custom_query = <<" ">> THEN <<>> ELSE custom_query

\* The value st.checkbox returns in run `run`: what the session holds for the
\* widget if the previous run rendered it, else its default.
CheckboxValue(s, run) ==
    IF s.confirm_run > 0 /\ s.confirm_run = run - 1 THEN s.confirm ELSE FALSE

\* st.session_state.query_history keeps this many texts.
HistoryLimit == 10

\* The texts of a list.
Texts(history) == {history[i] : i \in DOMAIN history}

\* A history that takes every executed text, listed or not.
RecordQueryAlways(history, custom_query) ==
    SubSeq(<<custom_query>> \o history, 1, Min(Len(history) + 1, HistoryLimit))

\* if custom_query not in query_history: query_history.insert(0, custom_query);
\* query_history = query_history[:10]
RecordQuery(history, custom_query) ==
    IF custom_query \in Texts(history) THEN history
    ELSE SubSeq(<<custom_query>> \o history, 1, Min(Len(history) + 1, HistoryLimit))

\* What the user may have in the SQL text area: one of CustomQueries, a text of
\* the history typed again, or the first limit text not yet in the history.
TextArea(history) ==
    CustomQueries \cup Texts(history)
        \cup {LimitQuery(CHOOSE n \in DOMAIN LimitTexts :
                            /\ LimitQuery(n) \notin Texts(history)
                            /\ \A m \in 1..(n - 1) : LimitQuery(m) \in Texts(history))}

\* What the user did to trigger this run, on the custom query section.
Interactions == {"execute", "validate", "tick", "other"}

\* show_custom_query_interface, the custom query section: the Execute button
\* with the keyword check, the confirmation checkbox and st.stop(); then
\* execute_query_with_results and its messages, and the query history.
show_custom_query_interface ==
    /\ pc \in {"routing", "custom_executed"}
    /\ AtCaller
    /\ IF pc = "custom_executed"
       THEN /\ pc' = "idle"
            /\ NoInvoke
            /\ msg' = IF eq.stage = "raised" THEN "Query execution failed"
                      ELSE IF eq.value.rows # {} THEN "Query executed successfully"
                      ELSE "Query executed successfully but returned no results"
            /\ session' = [session EXCEPT
                               !.query_history = RecordQuery(@, eq.query)]
       ELSE \E custom_query \in TextArea(session.query_history),
               interaction \in Interactions :
               IF interaction = "execute" /\ Strip(custom_query) # <<>>
               THEN IF HasDangerous(custom_query)
                    THEN LET confirm == CheckboxValue(session, runs)
                         IN /\ session' = [session EXCEPT !.confirm_run = runs, !.confirm = confirm]
                            /\ msg' = "This query contains potentially dangerous operations"
                            /\ IF ~confirm
                               THEN pc' = "idle" /\ NoInvoke      \* st.stop()
                               ELSE /\ Invoke(Stmt(custom_query, <<>>), TRUE)
                                    /\ pc' = "custom_executed"
                    ELSE /\ Invoke(Stmt(custom_query, <<>>), TRUE)
                         /\ pc' = "custom_executed"
                         /\ UNCHANGED <<msg, session>>
               ELSE /\ pc' = "idle"
                    /\ NoInvoke
                    /\ UNCHANGED msg
                    /\ session' = IF /\ interaction = "tick"
                                     /\ session.confirm_run > 0
                                     /\ session.confirm_run = runs - 1
                                  THEN [session EXCEPT !.confirm = TRUE]
                                  ELSE session
    /\ UNCHANGED <<store, conns, work, faults, clock, calls, idx, fired, todo,
                   selected, runs, snap, db, backup, peers>>

\* ------------------------------------------------------------------ a session on the custom query section

\* The history after the first k limit texts were executed, one per run.
HistoryAfter(k) == [i \in 1..k |-> LimitQuery(k + 1 - i)]

\* A session that has executed custom queries before, about to rerun.
InitHistory ==
    /\ store \in InitStores
    /\ conns = 0
    /\ work = store
    /\ eq = NoCall
    /\ events = <<>>
    /\ faults = 0
    /\ clock = 0
    /\ calls = 0
    /\ pc = "idle"
    /\ idx = 0
    /\ fired = FALSE
    /\ todo = <<>>
    /\ selected = <<>>
    /\ msg = ""
    /\ runs = 0
    /\ snap = [ctStart |-> store, seedStart |-> store, seedInserts |-> 0,
               form |-> NoForm]
    /\ db = DefaultObject
    /\ backup = NoBackup
    /\ \E k \in 0..HistoryLimit :
          session = [NoSession EXCEPT !.query_history = HistoryAfter(k)]
    /\ peers = NoPeers

\* The runs of a user who stays on the custom query section.
NextHistory ==
    \/ RunStart
    \/ create_tables
    \/ insert_sample_data
    \/ main_quick_stats
    \/ show_custom_query_interface
    \/ EqConnect
    \/ EqExecute
    \/ EqCommit
    \/ EqClose

SpecHistory == InitHistory /\ [][NextHistory]_vars

\* ------------------------------------------------------------------ specification

Next ==
    \/ RunStart
    \/ create_tables
    \/ insert_sample_data
    \/ show_other_page
    \/ show_crud_operations
    \/ create_player_form
    \/ create_match_form
    \/ create_venue_form
    \/ create_team_form
    \/ create_series_form
    \/ show_create_operations
    \/ show_read_operations
    \/ show_update_operations
    \/ update_player_records
    \/ update_match_records
    \/ show_delete_operations
    \/ delete_player_records
    \/ delete_match_records
    \/ show_custom_query_interface
    \/ main_quick_stats
    \/ show_home_page
    \/ EqConnect
    \/ EqExecute
    \/ EqCommit
    \/ EqClose

Spec == Init /\ [][Next]_vars

\* ------------------------------------------------------------------ properties

\* C1: whenever control is back with the caller of execute_query, after a normal
\* return as well as after a raise, no connection is open; and a call never has
\* more than its own connection open.
C1_ConnectionClosedAtReturn ==
    /\ conns \in {0, 1}
    /\ AtCaller => conns = 0

\* C1 happens: a second or later call raised out of its with block, after it had
\* connected, and its connection is closed.
C1_RaisedAndClosed ==
    /\ eq.stage = "raised"
    /\ calls >= 2
    /\ events = <<"connect", "execute", "close">>
    /\ conns = 0

\* C8: a write-mode call that returned did connect, execute, commit, close in
\* that order; when it leaves the with block the store already holds what the
\* connection saw, and once it returned the store is the statement's outcome.
C8_CommitBeforeClose ==
    /\ (eq.stage = "leaving" /\ ~eq.fetch) => store = work
    /\ (eq.stage = "returned" /\ ~eq.fetch) =>
          /\ events = <<"connect", "execute", "commit", "close">>
          /\ store = Exec(eq.before, eq.query, eq.params, clock).store

\* C8 happens: a player insert in write mode returned and the store changed.
C8_WriteCommitted ==
    /\ eq.stage = "returned"
    /\ ~eq.fetch
    /\ eq.query = create_player_query
    /\ store # eq.before

\* C9: a write-mode call that returned has returned None, whatever its
\* statement.
C9_WriteReturnsNone ==
    (eq.stage = "returned" /\ ~eq.fetch) => eq.value = NoneValue

\* C9 happens: a SELECT ran in write mode against a players table with rows,
\* and the call returned.
C9_SelectInWriteMode ==
    /\ eq.stage = "returned"
    /\ ~eq.fetch
    /\ eq.query = count_query
    /\ store.players # {}

\* C5: a finished read-mode call that looks a player up by name, the name bound
\* as a parameter and borne by exactly one stored row, returned exactly that row
\* (unless the driver failed for an outside reason).
C5_ReadBackByName ==
    LET named == {r \in store.players : r.name = eq.params[1]}
    IN (/\ eq.stage \in {"returned", "raised"}
        /\ ~eq.faulted
        /\ eq.fetch
        /\ eq.query = player_by_name_query
        /\ Cardinality(named) = 1)
       => (eq.stage = "returned" /\ eq.value.rows = named)

\* C6: a finished call with bound values, metacharacters included, stored or
\* matched the literal value and did nothing else: a write-mode player insert
\* added one row bearing the bound name and left every other table as it was; a
\* read-mode lookup by name returned the rows bearing the bound name and changed
\* nothing.
C6_BoundValueIsLiteral ==
    (/\ eq.stage \in {"returned", "raised"}
     /\ ~eq.faulted
     /\ "players" \in eq.before.tables)
    => /\ (eq.query = create_player_query /\ ~eq.fetch) =>
             /\ eq.stage = "returned"
             /\ \E r \in store.players :
                   /\ r.name = eq.params[1]
                   /\ r \notin eq.before.players
                   /\ store.players = eq.before.players \cup {r}
             /\ store.tables = eq.before.tables
             /\ \A t \in Tables \ {"players"} : store[t] = eq.before[t]
       /\ (eq.query = player_by_name_query /\ eq.fetch) =>
             /\ eq.stage = "returned"
             /\ eq.value.rows = {r \in eq.before.players : r.name = eq.params[1]}
             /\ store = eq.before

\* Where the script run is while create_tables (its seeding call included) runs.
InCreateTables == pc \in {"create_tables", "insert_sample_data", "seed_count", "seed_rows"}

\* C2: from the entry of create_tables to its end, whatever the store held at
\* the entry: no table is gone and none is added beyond the six, a store that
\* had the six tables has exactly these, every row that was there is there
\* unaltered, and the call does not raise.
C2_CreateTablesIdempotent ==
    /\ pc # "crashed"
    /\ (InCreateTables \/ pc = "page") =>
          /\ snap.ctStart.tables \subseteq store.tables
          /\ store.tables \subseteq Tables
          /\ \A t \in Tables : snap.ctStart[t] \subseteq store[t]

\* C2 happens: a second start-up has run the table loop of create_tables over a
\* store that already held the six tables and rows.
C2_SecondCallDone ==
    /\ runs >= 2
    /\ pc = "insert_sample_data"
    /\ snap.ctStart.tables = Tables
    /\ snap.ctStart.players # {}
    /\ snap.ctStart.player_statistics # {}
    /\ store = snap.ctStart

\* C3: when the players table held a row at the entry of _insert_sample_data,
\* the call issues no INSERT and the players, teams and venues tables keep their
\* row counts.
C3_SeedingSkipped ==
    (/\ pc \in {"seed_count", "seed_rows", "page"}
     /\ snap.seedStart.players # {})
    => /\ snap.seedInserts = 0
       /\ \A t \in {"players", "teams", "venues"} :
             Cardinality(store[t]) = Cardinality(snap.seedStart[t])

\* How many rows of a table bear a value in a column.
Bearing(t, column, value) == Cardinality({r \in store[t] : r[column] = value})

\* C4: as long as the driver never failed, no seed player, seed team or seed
\* venue is in its table more than once, whatever start-ups and deletions
\* happened.
C4_SeedsNotDuplicated ==
    faults = 0 =>
       /\ \A i \in 1..SeedCount(sample_players) :
             Bearing("players", "name", sample_players[i][1]) <= 1
       /\ \A i \in 1..SeedCount(sample_teams) :
             Bearing("teams", "team_name", sample_teams[i][1]) <= 1
       /\ \A i \in 1..SeedCount(sample_venues) :
             Bearing("venues", "venue_name", sample_venues[i][1]) <= 1

\* The statement texts of the CRUD page: the literal ones, and the browse
\* statements for each table of the selectbox.
FormStatements ==
    {create_player_query, create_match_query, create_venue_query, create_team_query,
     create_series_query, players_query, matches_query, current_player_query,
     current_match_query, update_player_query, update_match_query,
     delete_player_stats_query, delete_player_query, delete_match_stats_query,
     delete_match_query}
    \cup {BrowseAll(t) : t \in BrowseTables}
    \cup {BrowsePlayers(t) : t \in BrowseTables}
    \cup {BrowseMatches(t) : t \in BrowseTables}

\* Where the script run is when the last execute_query call was made by a form
\* of the CRUD page.
CalledByForm ==
    pc \in {"crud_created", "crud_browsed", "crud_update", "update_players",
            "update_player_form", "update_player_done", "update_matches",
            "update_match_form", "update_match_done", "delete_players",
            "delete_player_loop", "delete_matches", "delete_match_loop"}

\* C7: the text of every statement a CRUD form passes to execute_query is one of
\* the fixed texts, its only interpolated fragment a table name of the
\* selectbox, and no fragment of it is a text the user typed; and the statement
\* an update form would submit for any stored record is the fixed UPDATE text,
\* whatever was typed into the form.
C7_UserValuesOnlyBound ==
    /\ (CalledByForm /\ eq.stage # "none") =>
          /\ eq.query \in FormStatements
          /\ \A i \in DOMAIN eq.query : eq.query[i] \notin SearchTerms \ {""}
          /\ Len(eq.query) > 1 => eq.query[2] \in BrowseTables
    /\ \A r \in store.players : \A call \in PlayerUpdateCalls(r.player_id) :
          call.query = update_player_query
    /\ \A r \in store.matches : \A call \in MatchUpdateCalls(r.match_id) :
          call.query = update_match_query

\* C7 happens: the browse was made with a search term full of metacharacters,
\* which travels in the parameter tuple.
C7_MetacharactersBound ==
    /\ pc = "crud_browsed"
    /\ eq.query = BrowsePlayers("players")
    /\ eq.params[1] = "x'; DROP TABLE players; --"

\* C10: when the delete workflow reports success, no selected player (match) is
\* in its table and no player_statistics row references one.
C10_DeleteLeavesNothing ==
    /\ msg = "Successfully deleted players" =>
          \A i \in DOMAIN selected :
             /\ \A r \in store.players : r.player_id # selected[i]
             /\ \A r \in store.player_statistics : r.player_id # selected[i]
    /\ msg = "Successfully deleted matches" =>
          \A i \in DOMAIN selected :
             /\ \A r \in store.matches : r.match_id # selected[i]
             /\ \A r \in store.player_statistics : r.match_id # selected[i]

\* C10 happens: a player that had player_statistics rows when the run began was
\* deleted with success.
C10_DeletedPlayerHadStatistics ==
    /\ msg = "Successfully deleted players"
    /\ \E i \in DOMAIN selected :
          /\ \E r \in snap.ctStart.player_statistics : r.player_id = selected[i]
          /\ \E r \in snap.ctStart.players : r.player_id = selected[i]

\* C11: an object constructed with a kind other than sqlite, postgresql or
\* mysql is a failed construction: the constructor raised the configuration
\* error, no engine was created, no connection is open and no call was made
\* through it.
C11_UnsupportedKindRaises ==
    (db.state # "none" /\ db.db_type \notin {"sqlite", "postgresql", "mysql"}) =>
       /\ db.state = "raised"
       /\ db.err = "ValueError: Unsupported database type"
       /\ ~db.engine
       /\ db.connection_string = <<>>
       /\ conns = 0
       /\ eq = NoCall

\* C11 happens: the kind oracle was tried.
C11_OracleTried ==
    /\ db.db_type = "oracle"
    /\ db.state = "raised"

\* The connection parameters a client-server backend cannot do without.
RequiredParams == {"host", "database", "username", "password"}

\* C12: an object constructed for a client-server kind without one of the
\* required connection parameters is a failed construction, with no engine.
C12_MissingParameterRaises ==
    (/\ db.db_type \in {"postgresql", "mysql"}
     /\ RequiredParams \ DOMAIN db.connection_params # {})
    => (db.state = "raised" /\ ~db.engine)

\* C19: a backup_database call on an object of a kind other than sqlite
\* returns False, attempts no copy, and leaves the backup files and the data
\* file as they were.
C19_BackupNotSupported ==
    [][(calls' # calls /\ backup' # backup /\ db.db_type # "sqlite") =>
          /\ backup'.ret = "False"
          /\ ~backup'.attempted
          /\ backup'.files = backup.files
          /\ store' = store]_vars

\* C19 happens: backup_database was called on a client-server object over a
\* data file that holds rows.
C19_ClientServerBackupCalled ==
    /\ db.state = "ok"
    /\ db.db_type = "postgresql"
    /\ backup.ret = "False"
    /\ ~backup.attempted
    /\ store.players # {}

\* C20: a backup_database call whose copy failed returns False (it does not
\* raise) and leaves the data file and the earlier backup files as they were.
C20_FailedBackupReturnsFalse ==
    [][(calls' # calls /\ backup'.attempted /\ backup'.failed /\ eq' = eq) =>
          /\ backup'.ret = "False"
          /\ store' = store
          /\ work' = work
          /\ backup'.files = backup.files]_vars

\* C20 happens: a copy failed over a data file that holds rows.
C20_CopyFailed ==
    /\ backup.attempted
    /\ backup.failed
    /\ backup.ret = "False"
    /\ store.players # {}

\* How many times an event is in the log of the current call.
Times(e) == Cardinality({i \in DOMAIN events : events[i] = e})

\* C16: within one execute_query call the connection is opened at most once
\* and the statement is executed at most once; a call whose execution failed
\* ends raised, with the failure, and a call that returned had no failure.
C16_NoRetryNoSwallow ==
    /\ Times("connect") <= 1
    /\ Times("execute") <= 1
    /\ Times("commit") <= 1
    /\ eq.stage \in {"failing", "raised"} => eq.err # ""
    /\ eq.stage \in {"called", "connected", "executed", "leaving", "returned"} =>
          eq.err = ""

\* C16 happens: a write was refused by the database (the table is missing),
\* after one execution, and the call raised.
C16_RefusedOnce ==
    /\ eq.stage = "raised"
    /\ ~eq.fetch
    /\ eq.err = "no such table"
    /\ events = <<"connect", "execute", "close">>

\* The messages of the driver and of pandas.
DriverMessages ==
    {"no such table", "Incorrect number of bindings supplied", "syntax error",
     "NOT NULL constraint failed: players.name",
     "TypeError: Query must be a string unless using sqlalchemy",
     "TypeError: 'NoneType' object is not iterable",
     "OperationalError: unable to open database file",
     "OperationalError: database is locked", "OperationalError: disk I/O error"}

\* An error that names the statement category and carries the driver message.
Categorised(fetch, m) == (IF fetch THEN "read: " ELSE "write: ") \o m

\* C17: the error a failed execute_query call raises names the category of the
\* statement (read or write) together with the driver's message.
C17_ErrorNamesCategory ==
    eq.stage = "raised" =>
       \E m \in DriverMessages : eq.err = Categorised(eq.fetch, m)

\* C13 (as stated): the create statement of player_statistics is the last one
\* create_tables issues.
C13_StatisticsIssuedLast ==
    (pc = "create_tables" /\ eq.stage # "none" /\ eq.query = player_stats_table)
    => idx = Len(tables) + 1

\* C13 (amended): create_tables issues one create-if-absent statement per
\* table, the six of them in the order of its list; the statement of
\* player_statistics comes after those of players and matches, the two tables
\* it references, and it is the third, not the last.
C13_StatisticsAfterReferenced ==
    /\ (pc = "create_tables" /\ eq.stage # "none")
       => /\ eq.query = tables[idx - 1]
          /\ eq.params = <<>>
          /\ ~eq.fetch
    /\ (pc = "create_tables" /\ eq.stage # "none" /\ eq.query = player_stats_table)
       => /\ \E i \in 1..(idx - 2) : tables[i] = players_table
          /\ \E i \in 1..(idx - 2) : tables[i] = matches_table
          /\ idx - 1 = 3
    /\ pc = "insert_sample_data"
       => /\ idx = Cardinality(Tables) + 1
          /\ {CreatedTable(tables[i]) : i \in 1..(idx - 1)} = Tables

C13_StatisticsIssuedThird ==
    /\ pc = "create_tables"
    /\ eq.stage = "returned"
    /\ eq.query = player_stats_table
    /\ store.tables = {"players", "matches", "player_statistics"}

\* C14: when the creation of a table or the insert of a seed row has raised,
\* the loop it is in does not raise out: its next step issues the next
\* statement of the list, or leaves the loop normally when that was the last.
C14_BestEffortBootstrap ==
    [][(/\ eq.stage = "raised"
        /\ pc \in {"create_tables", "seed_rows"}
        /\ <<pc, idx>>' # <<pc, idx>>)
       => /\ pc' # "crashed"
          /\ pc = "create_tables"
             => IF idx <= Len(tables)
                THEN /\ pc' = pc
                     /\ idx' = idx + 1
                     /\ eq'.stage = "called"
                     /\ eq'.query = tables[idx]
                ELSE pc' = "insert_sample_data"
          /\ pc = "seed_rows"
             => IF idx <= Len(SeedCalls)
                THEN /\ pc' = pc
                     /\ idx' = idx + 1
                     /\ eq'.stage = "called"
                     /\ eq'.query = SeedCalls[idx].query
                     /\ eq'.params = SeedCalls[idx].params
                ELSE pc' = "page"]_vars

C14_RestCreated ==
    /\ pc = "seed_rows"
    /\ faults >= 1
    /\ snap.ctStart.tables = {}
    /\ Cardinality(store.tables) = Cardinality(Tables) - 1

\* C15: once a later start-up has run on a complete schema, with no row of the
\* seeded tables ever deleted, every seed player, team and venue is present,
\* whatever failed in the start-up before.
C15_ReseedCompletes ==
    (/\ pc = "page"
     /\ runs >= 2
     /\ store.tables = Tables
     /\ \A t \in {"players", "teams", "venues"} :
           Cardinality(store[t]) = store.seq[t])
    => /\ \A i \in 1..SeedCount(sample_players) :
             Bearing("players", "name", sample_players[i][1]) >= 1
       /\ \A i \in 1..SeedCount(sample_teams) :
             Bearing("teams", "team_name", sample_teams[i][1]) >= 1
       /\ \A i \in 1..SeedCount(sample_venues) :
             Bearing("venues", "venue_name", sample_venues[i][1]) >= 1

\* The texts of CustomQueries in which one of CREATE, DROP, ALTER, INSERT,
\* UPDATE, DELETE occurs, in whatever letter case.
KeywordTexts ==
    {<<"drop", "table", "players">>,
     <<"DELETE", "FROM", "players">>,
     <<"Update", "players", "set", "total_runs", "=", "0">>,
     <<"SELECT", "name,", "created_at", "FROM", "players">>}

\* C18: a statement of the custom query interface whose text contains a
\* mutating keyword, in any letter case, is passed to execute_query only in a
\* run in which the confirmation checkbox was shown and is ticked.
C18_KeywordNeedsConfirmation ==
    (/\ pc = "custom_executed"
     /\ eq.stage # "none"
     /\ eq.query \in KeywordTexts)
    => /\ session.confirm_run = runs
       /\ session.confirm

C18_UnconfirmedStopped ==
    /\ pc = "idle"
    /\ msg = "This query contains potentially dangerous operations"
    /\ session.confirm_run = runs
    /\ ~session.confirm
    /\ "players" \in store.tables

\* C21: any two backup_database calls without a destination that copied wrote
\* to two different paths.
C21_DefaultBackupsNeverCollide ==
    \A i, j \in DOMAIN backup.log :
       (/\ i < j
        /\ backup.log[i].arg = <<>> /\ ~backup.log[i].failed
        /\ backup.log[j].arg = <<>> /\ ~backup.log[j].failed)
       => backup.log[i].path # backup.log[j].path

\* The base name (directory and extension taken off) and the extension of a
\* data file.
Basename(db_path) ==
    CASE db_path = "cricket_analytics.db" -> "cricket_analytics"
      [] db_path = "data/stats.sqlite3" -> "stats"

Ext(db_path) ==
    CASE db_path = "cricket_analytics.db" -> "db"
      [] db_path = "data/stats.sqlite3" -> "sqlite3"

\* C22: a backup_database call without a destination, on an SQLite object,
\* copies to <basename>_backup_<stamp>.<ext>, basename and ext being those of
\* the object's db_path.
C22_BackupNamedAfterDataFile ==
    [][(backup'.log # backup.log /\ backup'.arg = <<>>) =>
          \E i \in DOMAIN Stamps :
             backup'.path =
                <<Basename(db.db_path), "_backup_", Stamps[i], ".", Ext(db.db_path)>>]_vars

\* The numeric statistics of a player row.
PlayerStatistics ==
    {"total_runs", "total_wickets", "batting_average", "bowling_average",
     "strike_rate", "economy_rate"}

C24_OneConnectionAtATime ==
    /\ conns \in {0, 1}
    /\ pc \in {"quick_stats", "home_metrics"} => (conns = 1 /\ AtCaller)
    /\ (pc \notin {"quick_stats", "home_metrics"} /\ AtCaller) => conns = 0
    /\ eq.stage \in {"connected", "executed", "leaving", "failing"}
       => (conns = 1 /\ pc \notin {"quick_stats", "home_metrics"})

\* C24 happens: the home page is at its last read, after the sidebar block
\* and the metrics block each had their connection.
C24_HomeAfterSidebar ==
    /\ pc = "home_charts"
    /\ eq.query = recent_players_query
    /\ eq.stage = "connected"
    /\ conns = 1

\* C25: on the update page, the record picked is loaded into its form (unless
\* the database itself failed), so that an update can be submitted; and a
\* submitted update that returned changed nothing but the submitted fields
\* and the update timestamp of the row with the selected identifier.
C25_UpdateTouchesSelectedRowOnly ==
    /\ (/\ pc \in {"update_player_form", "update_match_form"}
        /\ eq.stage \in {"returned", "raised"}
        /\ ~eq.faulted)
       => eq.stage = "returned"
    /\ (pc = "update_player_done" /\ eq.stage = "returned")
       => /\ \A t \in Tables \ {"players"} : store[t] = eq.before[t]
          /\ \A r \in store.players :
                \/ r \in eq.before.players
                \/ /\ r.player_id = eq.params[10]
                   /\ r.updated_at = clock
                   /\ \E o \in eq.before.players :
                         /\ o.player_id = r.player_id
                         /\ \A column \in {"batting_style", "bowling_style",
                                           "date_of_birth", "created_at"} :
                               r[column] = o[column]
    /\ (pc = "update_match_done" /\ eq.stage = "returned")
       => /\ \A t \in Tables \ {"matches"} : store[t] = eq.before[t]
          /\ \A r \in store.matches :
                \/ r \in eq.before.matches
                \/ /\ r.match_id = eq.params[6]
                   /\ "updated_at" \in DOMAIN r
                   /\ \E o \in eq.before.matches :
                         /\ o.match_id = r.match_id
                         /\ \A column \in {"match_title", "team1", "team2", "venue_name",
                                           "venue_city", "venue_country", "match_date",
                                           "match_format", "toss_winner", "toss_decision",
                                           "created_at"} :
                               r[column] = o[column]

\* C26: when both of two sessions that started up together on a fresh data
\* file are through, the six tables exist and every seed player, team and
\* venue is in its table exactly once, with no other row.
C26_ConcurrentStartupSeedsOnce ==
    (\A s \in Sessions : peers[s].pc = "done")
    => /\ store.tables = Tables
       /\ Cardinality(store.players) = SeedCount(sample_players)
       /\ Cardinality(store.teams) = SeedCount(sample_teams)
       /\ Cardinality(store.venues) = SeedCount(sample_venues)
       /\ \A i \in 1..SeedCount(sample_players) :
             Bearing("players", "name", sample_players[i][1]) = 1
       /\ \A i \in 1..SeedCount(sample_teams) :
             Bearing("teams", "team_name", sample_teams[i][1]) = 1
       /\ \A i \in 1..SeedCount(sample_venues) :
             Bearing("venues", "venue_name", sample_venues[i][1]) = 1

\* C27: the run that the tick of the confirmation checkbox triggers, after
\* Execute was pressed on a flagged statement, passes that statement to
\* execute_query.
C27_TickedConfirmationExecutes ==
    [][(session'.confirm /\ ~session.confirm)
       => /\ pc' = "custom_executed"
          /\ eq'.stage = "called"
          /\ eq'.query \in KeywordTexts]_vars

\* What C28 says of one delete loop, over table t: the parent DELETE of a
\* record is issued only once no player_statistics row references the record
\* any more in the committed store; and when the loop ended on a failure, the
\* records before the failed one are gone with their dependent rows, the
\* records after it are untouched, and a record whose parent DELETE failed is
\* still there with its dependent rows gone.
DeleteOrder(loop, t, id_column, parent_query) ==
    /\ (pc = loop /\ eq.stage # "none" /\ eq.query = parent_query)
       => \A r \in eq.before.player_statistics : r[id_column] # eq.params[1]
    /\ (pc = "idle" /\ msg = "Error deleting " \o t)
       => LET begun == Len(selected) - Len(todo)
              done == IF eq.query = parent_query THEN begun - 1 ELSE begun
          IN /\ \A i \in 1..done :
                   /\ \A r \in store[t] : r[id_column] # selected[i]
                   /\ \A r \in store.player_statistics : r[id_column] # selected[i]
             /\ \A i \in (done + 1)..Len(selected) :
                   \E r \in store[t] : r[id_column] = selected[i]
             /\ \A i \in (begun + 1)..Len(selected) :
                   \A r \in snap.ctStart.player_statistics :
                      r[id_column] = selected[i] => r \in store.player_statistics
             /\ eq.query = parent_query
                => /\ eq.params[1] = selected[begun]
                   /\ \A r \in store.player_statistics : r[id_column] # selected[begun]

\* C28: in both delete loops the dependent rows of a record are deleted and
\* committed before its parent DELETE is issued, and a failure ends the loop:
\* earlier deletions stay, later records are not processed, and a parent whose
\* own DELETE failed remains without its dependent rows.
C28_DeleteStopsAtFirstFailure ==
    /\ DeleteOrder("delete_player_loop", "players", "player_id", delete_player_query)
    /\ DeleteOrder("delete_match_loop", "matches", "match_id", delete_match_query)

\* C28 happens: the parent DELETE of a player that had player_statistics rows
\* failed; the player is still there.
C28_ParentDeleteFailed ==
    /\ pc = "idle"
    /\ msg = "Error deleting players"
    /\ eq.query = delete_player_query
    /\ \E r \in snap.ctStart.player_statistics : r.player_id = eq.params[1]
    /\ \E r \in store.players : r.player_id = eq.params[1]

\* The four DELETE statements of the delete page.
DeleteStatements ==
    {delete_player_stats_query, delete_player_query,
     delete_match_stats_query, delete_match_query}

\* C29: a DELETE statement is issued in a run only if, in that run, the
\* permanence checkbox is ticked, a record is selected, the typed confirmation
\* is exactly DELETE and the button is pressed; and a rendering of the delete
\* page that ends without entering the delete loop leaves the store as it was.
C29_DeleteNeedsFullConfirmation ==
    /\ [](eq.query \in DeleteStatements
          => /\ snap.form.confirm_delete
             /\ selected # <<>>
             /\ snap.form.final_confirm = "DELETE"
             /\ snap.form.pressed)
    /\ [][(/\ pc \in {"crud_delete", "delete_players", "delete_matches"}
           /\ AtCaller
           /\ pc' = "idle")
          => (store' = store /\ eq' = eq)]_vars

\* C29 happens: the parent DELETE of the second of two selected players was
\* issued, on full confirmation.
C29_DeleteIssuedOnConfirmation ==
    /\ eq.query = delete_player_query
    /\ eq.stage = "returned"
    /\ snap.form = [confirm_delete |-> TRUE, final_confirm |-> "DELETE", pressed |-> TRUE]
    /\ Len(selected) = 2

\* C30: the query history never holds more than HistoryLimit texts nor the same
\* text twice; it changes only when an executed custom query returns to the
\* page, and then a text not yet listed goes to the front, the oldest one
\* leaving a full list, while a listed text leaves the list as it is; a run
\* stopped at the confirmation of a flagged text leaves the list as it is.
C30_HistoryBoundedAndDistinct ==
    /\ [](/\ Len(session.query_history) <= HistoryLimit
          /\ \A i, j \in DOMAIN session.query_history :
                session.query_history[i] = session.query_history[j] => i = j)
    /\ [][LET history == session.query_history
               after == session'.query_history
               custom_query == eq.query
           IN IF pc = "custom_executed" /\ pc' = "idle"
              THEN IF \E i \in DOMAIN history : history[i] = custom_query
                   THEN after = history
                   ELSE /\ after[1] = custom_query
                        /\ Len(after) = Min(Len(history) + 1, HistoryLimit)
                        /\ \A i \in 2..Len(after) : after[i] = history[i - 1]
              ELSE after = history]_vars
    /\ [][(/\ pc = "routing"
           /\ pc' = "idle"
           /\ msg' = "This query contains potentially dangerous operations")
          => session'.query_history = session.query_history]_vars

\* C30 happens: in its second run the session executed an eleventh text, which
\* a full history took at its front, losing its oldest one.
C30_OldestDropped ==
    /\ pc = "idle"
    /\ runs = 2
    /\ eq.query = LimitQuery(11)
    /\ session.query_history = [i \in 1..HistoryLimit |-> LimitQuery(12 - i)]

====
